---- MODULE Spec2Model ----
(***************************************************************************)
(* Model of cashew's filesystem messaging core:                            *)
(*   - pi/extensions/message-queue.ts : the queue consumer (processQueue,  *)
(*     the 500 ms poll timer, session_start / session_shutdown);           *)
(*   - the pi-subscribe extension (status log writer, agent_end handler);  *)
(*   - the controller side (dev send-pi, dev pi-subscribe), whose script   *)
(*     is not part of the sources and is modelled from its documentation.  *)
(*                                                                         *)
(* A file is a sequence of lines (each line stands for "<line>\n").        *)
(* processQueue is synchronous inside the agent process, but the           *)
(* controller is another OS process, so the drain is split at its system   *)
(* calls: the read, each line's handling, and the final rewrite.           *)
(***************************************************************************)
EXTENDS Integers, Sequences, FiniteSets, TLC

VARIABLES
    \* ---- filesystem, queue side
    queueExists,    \* existsSync(queueFile)
    queueFile,      \* content of <queue-root>/<fsKey>.jsonl, as lines
    deadLetter,     \* content of <queueFile>.dead-letter, as lines
    \* ---- message-queue.ts closure state
    pollInterval,   \* the handle in `pollInterval` is non-null
    timers,         \* number of live setInterval timers of the extension
    \* ---- processQueue activation record
    pc,             \* "idle" | "loop" | "rewrite"
    content,        \* what readFileSync returned (all lines, blank ones too)
    lines,          \* content.split("\n").filter(line => line.trim())
    idx,            \* position of the for-of loop in lines (1-based)
    retryLines,     \* retryLines
    \* ---- agent runtime and history
    sent,           \* successful pi.sendUserMessage calls, in call order
    cycle,          \* number of drain cycles that entered the loop
    raised,         \* an exception escaped processQueue into the timer
    faults,         \* injected failures so far (I/O errors, refused handoffs)
    starts,         \* session_start events so far
    enqueued,       \* every line the controller appended, with the cycle count then
    raced,          \* some enqueue landed while a drain cycle was in progress
    refused,        \* the lines whose sendUserMessage threw in the current cycle
    cutShort,       \* the last cycle that the catch of line 71 ended (0 when none)
    \* ---- pi-subscribe extension and its log
    statusFile,     \* closure variable statusFile ("" before session_start)
    statusLog,      \* content of the status log, as entries (one per line)
    statusRaised,   \* an exception left a handler of the pi-subscribe extension
    statusFaults,   \* injected fs failures of the pi-subscribe extension so far
    turns,          \* agent_end events since the first session_start, with their outcome
    clock,          \* Date.now()
    subs,           \* controller-side subscribers (dev pi-subscribe)
    \* ---- session naming (controller side)
    codecPc,        \* "idle" | "encoded" | "rejected" | "decoded"
    address,        \* the address handed to encode
    flatId,         \* the session name encode produced (<<>> when none)
    codecError,     \* the error encode failed with ("none" when it did not)
    decoded,        \* the address decode produced from flatId
    \* ---- the files of two sessions
    sessions,       \* per session: its working directory and the paths it resolved
    \* ---- kw-role.ts and the metadata file
    kwEnv,          \* process.env when the extension was loaded
    metaFile,       \* content of the file PI_KW_META_FILE names
    currentTags,    \* closure variable currentTags
    currentDescription, \* closure variable currentDescription
    metaNow,        \* new Date(), in ticks
    metaWrites,     \* successful writeFileSync calls on the metadata file
    metaFaults,     \* injected fs failures of kw-role.ts so far
    metaOps,        \* commands and turn completions so far
    kwRaised,       \* an exception left a handler of kw-role.ts
    lastOp,         \* the last command or turn completion, and the file before it
    metaPending     \* an updateMeta call between its read and its write

queueVars == <<queueExists, queueFile, deadLetter, pollInterval, timers, pc, content,
               lines, idx, retryLines, sent, cycle, raised, faults, starts, enqueued, raced,
               refused, cutShort>>
statusVars == <<statusFile, statusLog, statusRaised, statusFaults, turns, clock, subs>>
codecVars == <<codecPc, address, flatId, codecError, decoded>>
pathVars == <<sessions>>
metaVars == <<kwEnv, metaFile, currentTags, currentDescription, metaNow, metaWrites,
              metaFaults, metaOps, kwRaised, lastOp, metaPending>>
vars == <<queueVars, statusVars, codecVars, pathVars, metaVars>>

\* ------------------------------------------------------------------ bounds
MaxEnq == 2         \* lines the controller appends in one behaviour
MaxFaults == 2      \* failures injected in one behaviour
MaxStarts == 1      \* session_start events in one behaviour of the queue
MaxLifeStarts == 2  \* session_start events in one behaviour of the session lifecycle
MaxTurns == 2       \* agent_end events in one behaviour
MaxStatusFaults == 1 \* fs failures injected into the pi-subscribe extension
MaxReaders == 2     \* concurrent subscribers of the status log
MaxCompLen == 2     \* characters in one component of a session address
MaxPathLen == 4     \* characters in the working directory of a session
MaxMetaOps == 2     \* commands and turn completions of a knowledge-worker session
MaxMetaFaults == 1  \* failures injected into the metadata file's reads and writes

\* ------------------------------------------------------------------ helpers
Count(s, x) == Cardinality({i \in DOMAIN s : s[i] = x})

IsPrefix(s, t) == Len(s) <= Len(t) /\ SubSeq(t, 1, Len(s)) = s

\* ------------------------------------------------------------------ queue lines
LineHello == "{\"message\":\"hello\",\"mode\":\"followUp\"}"
LineStop == "{\"message\":\"stop\",\"mode\":\"steer\"}"
LineNoMessage == "{\"mode\":\"followUp\"}"
LineNumMessage == "{\"message\":7,\"mode\":\"steer\"}"
LineNotJson == "hello {"
LineNull == "null"
LineBlank == "  "
LineNoMode == "{\"message\":\"plain\"}"
LineOddMode == "{\"message\":\"loud\",\"mode\":\"STEER\"}"

\* The lines that differ in their `mode` only, and one without a message.
ModeLines == {LineHello, LineStop, LineNoMode, LineOddMode, LineNumMessage}

\* The raw lines a queue file is built from in the model.
Lines == {LineHello, LineStop, LineNoMessage, LineNumMessage, LineNotJson, LineNull,
          LineBlank}

Undefined == [type |-> "undefined", val |-> ""]
Str(s) == [type |-> "string", val |-> s]
Num(s) == [type |-> "number", val |-> s]

\* JSON.parse(line) on the lines above: throws (SyntaxError), or yields null, or an
\* object with its `message` and `mode` properties.
JSONparse(line) ==
    CASE line = LineHello -> [throws |-> FALSE, isNull |-> FALSE,
                              message |-> Str("hello"), mode |-> Str("followUp")]
      [] line = LineStop -> [throws |-> FALSE, isNull |-> FALSE,
                             message |-> Str("stop"), mode |-> Str("steer")]
      [] line = LineNoMessage -> [throws |-> FALSE, isNull |-> FALSE,
                                  message |-> Undefined, mode |-> Str("followUp")]
      [] line = LineNumMessage -> [throws |-> FALSE, isNull |-> FALSE,
                                   message |-> Num("7"), mode |-> Str("steer")]
      [] line = LineNoMode -> [throws |-> FALSE, isNull |-> FALSE,
                               message |-> Str("plain"), mode |-> Undefined]
      [] line = LineOddMode -> [throws |-> FALSE, isNull |-> FALSE,
                                message |-> Str("loud"), mode |-> Str("STEER")]
      [] line = LineNull -> [throws |-> FALSE, isNull |-> TRUE,
                             message |-> Undefined, mode |-> Undefined]
      [] OTHER -> [throws |-> TRUE, isNull |-> FALSE,
                   message |-> Undefined, mode |-> Undefined]

\* line.trim() is the empty string
TrimIsEmpty(line) == line = LineBlank \/ line = ""

SplitFilterMut(c) == c

\* content.split("\n").filter((line) => line.trim())
RECURSIVE SplitFilter(_)
SplitFilter(c) ==
    IF c = <<>> THEN <<>>
    ELSE IF TrimIsEmpty(Head(c)) THEN SplitFilter(Tail(c))
         ELSE <<Head(c)>> \o SplitFilter(Tail(c))

\* !content.trim()
ContentTrimIsEmpty(c) == \A i \in DOMAIN c : TrimIsEmpty(c[i])

\* typeof parsed.message === "string" ? parsed.message : ""
MessageOfMut(parsed) == parsed.message.val
MessageOf(parsed) == IF parsed.message.type = "string" THEN parsed.message.val ELSE ""

ModeOfMut(parsed) == IF parsed.mode.type = "string" THEN parsed.mode.val ELSE "followUp"

\* parsed.mode === "steer" ? "steer" : "followUp"
ModeOf(parsed) == IF parsed.mode = Str("steer") THEN "steer" ELSE "followUp"

\* The try block of lines 44-60 throws before reaching sendUserMessage: JSON.parse
\* throws, or `parsed.message` is read off null.
ParseThrows(line) == JSONparse(line).throws \/ JSONparse(line).isNull

\* The element the for-of loop visits at its k-th iteration.
LineAtMut(ls, k) == ls[Len(ls) + 1 - k]
LineAt(ls, k) == ls[k]

\* appendFileSync(deadLetterFile, `${line}\n`)
AppendDeadLetterMut(dl, line) == <<line>>
AppendDeadLetter(dl, line) == Append(dl, line)

\* catch (error) { retryLines.push(line) }
OnSendThrowMut(retry, line) == retry
OnSendThrow(retry, line) == Append(retry, line)

\* sendUserMessage returned: the line is not kept.
OnSendOkMut(retry, line) == Append(retry, line)
OnSendOk(retry, line) == retry

RewriteContentMut(retry) == IF Len(retry) > 1 THEN retry ELSE <<>>
\* Lines 66-70: the content written back, as lines ("" is the empty file).
RewriteContent(retry) == IF Len(retry) > 0 THEN retry ELSE <<>>

\* The fs calls of processQueue that sit inside the try of lines 34-73.
GuardedCallsMut == {"readFileSync"}
GuardedNoWriteMut == {"readFileSync", "appendFileSync"}
GuardedCalls == {"readFileSync", "appendFileSync", "writeFileSync"}

\* An exception thrown by `call` leaves processQueue.
Escapes(call) == call \notin GuardedCalls

\* ------------------------------------------------------------------ initial state
\* The extension has been loaded and no event has been delivered yet; the
\* session's files do not exist.
InitQueue ==
    /\ queueExists = FALSE
    /\ queueFile = <<>>
    /\ deadLetter = <<>>
    /\ pollInterval = FALSE
    /\ timers = 0
    /\ pc = "idle"
    /\ content = <<>>
    /\ lines = <<>>
    /\ idx = 0
    /\ retryLines = <<>>
    /\ sent = <<>>
    /\ cycle = 0
    /\ raised = FALSE
    /\ faults = 0
    /\ starts = 0
    /\ enqueued = <<>>
    /\ raced = FALSE
    /\ refused = <<>>
    /\ cutShort = 0

\* ------------------------------------------------------------------ controller: dev send-pi
\* Append one line to the queue file, creating it if absent. The controller
\* never reads or clears the file. Any raw line may be written (a malformed
\* one stands for a line written directly into the file).
Enqueue(line) ==
    /\ Len(enqueued) < MaxEnq
    /\ queueFile' = Append(queueFile, line)
    /\ queueExists' = TRUE
    /\ enqueued' = Append(enqueued, [line |-> line, at |-> cycle])
    /\ raced' = (raced \/ pc # "idle")
    /\ UNCHANGED <<deadLetter, pollInterval, timers, pc, content, lines, idx, retryLines,
                   sent, cycle, raised, faults, starts, refused, cutShort>>
    /\ UNCHANGED <<statusVars, codecVars, pathVars, metaVars>>

\* ------------------------------------------------------------------ message-queue.ts
\* pi.on("session_start"): a new interval timer is created and its handle
\* stored in pollInterval (a handle already there is overwritten, not cleared).
QueueSessionStart ==
    /\ pc = "idle"
    /\ ~raised
    /\ starts' = starts + 1
    /\ pollInterval' = TRUE
    /\ timers' = timers + 1
    /\ UNCHANGED <<queueExists, queueFile, deadLetter, pc, content, lines, idx, retryLines,
                   sent, cycle, raised, faults, enqueued, raced, refused, cutShort>>
    /\ UNCHANGED <<statusVars, codecVars, pathVars, metaVars>>

\* pi.on("session_shutdown"): clearInterval on the stored handle, if any.
QueueSessionShutdown ==
    /\ pc = "idle"
    /\ ~raised
    /\ IF pollInterval
       THEN /\ timers' = timers - 1
            /\ pollInterval' = FALSE
       ELSE UNCHANGED <<timers, pollInterval>>
    /\ UNCHANGED <<queueExists, queueFile, deadLetter, pc, content, lines, idx, retryLines,
                   sent, cycle, raised, faults, starts, enqueued, raced, refused, cutShort>>
    /\ UNCHANGED <<statusVars, codecVars, pathVars, metaVars>>

\* processQueue returns (normally, or through the catch of line 71): the
\* activation record is gone.
Return ==
    /\ pc' = "idle"
    /\ content' = <<>>
    /\ lines' = <<>>
    /\ idx' = 0
    /\ retryLines' = <<>>
    /\ refused' = <<>>

\* An fs call threw inside processQueue: the fault is counted, and the
\* exception either reaches the catch of line 71 or leaves the function.
Throw(call, n) ==
    /\ faults' = faults + n
    /\ raised' = (raised \/ Escapes(call))
    /\ cutShort' = IF call = "readFileSync" THEN cutShort ELSE cycle   \* line 35 is before the loop
    /\ Return

\* A timer tick: processQueue up to the start of the for loop (lines 30-41).
DrainStart ==
    /\ timers > 0
    /\ pc = "idle"
    /\ ~raised
    /\ \/ /\ ~queueExists                                  \* line 30
          /\ UNCHANGED queueVars
       \/ /\ queueExists
          /\ faults < MaxFaults                            \* readFileSync throws
          /\ Throw("readFileSync", 1)
          /\ UNCHANGED <<queueExists, queueFile, deadLetter, pollInterval, timers, sent,
                         cycle, starts, enqueued, raced>>
       \/ /\ queueExists
          /\ ContentTrimIsEmpty(queueFile)                 \* line 36
          /\ UNCHANGED queueVars
       \/ /\ queueExists
          /\ ~ContentTrimIsEmpty(queueFile)
          /\ Len(SplitFilter(queueFile)) = 0               \* line 39
          /\ UNCHANGED queueVars
       \/ /\ queueExists
          /\ ~ContentTrimIsEmpty(queueFile)
          /\ Len(SplitFilter(queueFile)) > 0
          /\ content' = queueFile
          /\ lines' = SplitFilter(queueFile)
          /\ idx' = 1
          /\ retryLines' = <<>>
          /\ refused' = <<>>
          /\ pc' = "loop"
          /\ cycle' = cycle + 1
          /\ UNCHANGED <<queueExists, queueFile, deadLetter, pollInterval, timers, sent,
                         raised, faults, starts, enqueued, raced, cutShort>>
    /\ UNCHANGED <<statusVars, codecVars, pathVars, metaVars>>

AdvanceMut ==
    /\ content' = content
    /\ lines' = lines
    /\ idx' = idx
    /\ pc' = "rewrite"

\* The for loop moves to its next element, or ends.
Advance ==
    /\ content' = content
    /\ lines' = lines
    /\ IF idx < Len(lines)
       THEN idx' = idx + 1 /\ pc' = "loop"
       ELSE idx' = idx /\ pc' = "rewrite"

\* One iteration of the for loop (lines 43-64).
DrainLine ==
    /\ pc = "loop"
    /\ LET line == LineAt(lines, idx)
           parsed == JSONparse(line)
       IN
       \/ /\ ParseThrows(line)                              \* catch of line 61
          /\ \/ /\ deadLetter' = AppendDeadLetter(deadLetter, line)
                /\ Advance
                /\ UNCHANGED <<retryLines, sent, raised, faults, refused, cutShort>>
             \/ /\ faults < MaxFaults                       \* line 62 throws
                /\ Throw("appendFileSync", 1)
                /\ UNCHANGED <<deadLetter, sent>>
       \/ /\ ~ParseThrows(line)
          /\ MessageOf(parsed) = ""                         \* line 49
          /\ \/ /\ deadLetter' = AppendDeadLetter(deadLetter, line)   \* line 50
                /\ Advance
                /\ UNCHANGED <<retryLines, sent, raised, faults, refused, cutShort>>
             \/ /\ faults < MaxFaults                       \* line 50 throws, line 62 appends
                /\ faults' = faults + 1
                /\ deadLetter' = AppendDeadLetter(deadLetter, line)
                /\ Advance
                /\ UNCHANGED <<retryLines, sent, raised, refused, cutShort>>
             \/ /\ faults + 1 < MaxFaults                   \* lines 50 and 62 both throw
                /\ Throw("appendFileSync", 2)
                /\ UNCHANGED <<deadLetter, sent>>
       \/ /\ ~ParseThrows(line)
          /\ MessageOf(parsed) # ""
          /\ \/ /\ sent' = Append(sent, [line |-> line, message |-> MessageOf(parsed),
                                         deliverAs |-> ModeOf(parsed), cycle |-> cycle])
                /\ retryLines' = OnSendOk(retryLines, line)
                /\ Advance
                /\ UNCHANGED <<deadLetter, raised, faults, refused, cutShort>>
             \/ /\ faults < MaxFaults                       \* sendUserMessage throws
                /\ faults' = faults + 1
                /\ retryLines' = OnSendThrow(retryLines, line)
                /\ refused' = Append(refused, line)
                /\ Advance
                /\ UNCHANGED <<deadLetter, sent, raised, cutShort>>
    /\ UNCHANGED <<queueExists, queueFile, pollInterval, timers, cycle, starts, enqueued,
                   raced>>
    /\ UNCHANGED <<statusVars, codecVars, pathVars, metaVars>>

\* The rewrite of lines 66-70.
DrainRewrite ==
    /\ pc = "rewrite"
    /\ \/ /\ queueFile' = RewriteContent(retryLines)
          /\ queueExists' = TRUE
          /\ Return
          /\ UNCHANGED <<raised, faults, cutShort>>
       \/ /\ faults < MaxFaults                             \* writeFileSync throws
          /\ Throw("writeFileSync", 1)
          /\ UNCHANGED <<queueExists, queueFile>>
    /\ UNCHANGED <<deadLetter, pollInterval, timers, sent, cycle, starts, enqueued, raced>>
    /\ UNCHANGED <<statusVars, codecVars, pathVars, metaVars>>

\* ================================================================== pi-subscribe
\* A text is kept run-length encoded: a sequence of runs [ch, n], n >= 1, no two
\* neighbouring runs of the same character, standing for the characters in order.
MAX_MESSAGE_CHARS == 4000

\* The marker truncateMessage appends, as the source file has it: the three
\* characters U+00E2 U+20AC U+00A6 (the UTF-8 bytes of U+2026 read as Windows-1252).
Ellipsis == <<"U+00E2", "U+20AC", "U+00A6">>

Run(ch, n) == [ch |-> ch, n |-> n]

\* The canonical encoding of a sequence of runs (empty runs dropped, neighbours merged).
RECURSIVE Norm(_)
Norm(t) ==
    IF t = <<>> THEN <<>>
    ELSE IF Head(t).n = 0 THEN Norm(Tail(t))
    ELSE LET rest == Norm(Tail(t)) IN
         IF rest # <<>> /\ Head(rest).ch = Head(t).ch
         THEN <<Run(Head(t).ch, Head(t).n + Head(rest).n)>> \o Tail(rest)
         ELSE <<Head(t)>> \o rest

\* The text of a sequence of characters.
Text(chars) == Norm([i \in DOMAIN chars |-> Run(chars[i], 1)])

\* String.prototype.length
RECURSIVE Length(_)
Length(t) == IF t = <<>> THEN 0 ELSE Head(t).n + Length(Tail(t))

\* message.slice(0, k)
RECURSIVE Slice(_, _)
Slice(t, k) ==
    IF t = <<>> \/ k <= 0 THEN <<>>
    ELSE IF Head(t).n >= k THEN <<Run(Head(t).ch, k)>>
         ELSE <<Head(t)>> \o Slice(Tail(t), k - Head(t).n)

\* Concatenation of two texts.
Concat(t, u) == Norm(t \o u)

Whitespace == {" ", "\n", "\t"}

\* String.prototype.trim
RECURSIVE TrimLeft(_)
TrimLeft(t) == IF t # <<>> /\ Head(t).ch \in Whitespace THEN TrimLeft(Tail(t)) ELSE t
RECURSIVE TrimRight(_)
TrimRight(t) ==
    IF t # <<>> /\ t[Len(t)].ch \in Whitespace THEN TrimRight(SubSeq(t, 1, Len(t) - 1)) ELSE t
Trim(t) == TrimRight(TrimLeft(t))

\* Array.prototype.join(" ") on a sequence of texts
RECURSIVE JoinSpace(_)
JoinSpace(ts) ==
    IF ts = <<>> THEN <<>>
    ELSE IF Len(ts) = 1 THEN ts[1]
         ELSE Concat(Concat(ts[1], <<Run(" ", 1)>>), JoinSpace(Tail(ts)))

TextPartsMut(parts) == [i \in DOMAIN parts |-> parts[i].text]

\* .filter((part) => part && part.type === "text").map((part) => part.text || "")
RECURSIVE TextParts(_)
TextParts(parts) ==
    IF parts = <<>> THEN <<>>
    ELSE IF Head(parts).type = "text"
         THEN <<Head(parts).text>> \o TextParts(Tail(parts))
         ELSE TextParts(Tail(parts))

\* extractText (lines 36-47). A content is a string, an array of parts, or
\* something else (null, undefined, an object).
ExtractText(c) ==
    IF c.kind = "string" THEN c.text                 \* "" is falsy: returns ""
    ELSE IF c.kind = "array" THEN Trim(JoinSpace(TextParts(c.parts)))
    ELSE <<>>

TruncateMessageMut(message) ==
    IF Length(message) < MAX_MESSAGE_CHARS
    THEN [text |-> message, truncated |-> FALSE]
    ELSE [text |-> Concat(Slice(message, MAX_MESSAGE_CHARS), Text(Ellipsis)),
          truncated |-> TRUE]

\* truncateMessage (lines 49-52)
TruncateMessage(message) ==
    IF Length(message) <= MAX_MESSAGE_CHARS
    THEN [text |-> message, truncated |-> FALSE]
    ELSE [text |-> Concat(Slice(message, MAX_MESSAGE_CHARS), Text(Ellipsis)),
          truncated |-> TRUE]

\* [...messages].reverse().find((message) => message?.role === "assistant"):
\* the index of the last assistant message, 0 when there is none.
LastAssistantMut(messages) ==
    IF messages # <<>> /\ messages[Len(messages)].role = "assistant" THEN Len(messages) ELSE 0
LastAssistant(messages) ==
    IF \E i \in DOMAIN messages : messages[i].role = "assistant"
    THEN CHOOSE i \in DOMAIN messages :
            /\ messages[i].role = "assistant"
            /\ \A j \in DOMAIN messages : messages[j].role = "assistant" => j <= i
    ELSE 0

\* toLowerCase, on the characters the model's paths use
ToLower(ch) ==
    CASE ch = "P" -> "p"
      [] ch = "M" -> "m"
      [] OTHER -> ch

SafePathFromCwdMut(cwd) ==
    LET lower == [i \in DOMAIN cwd |-> ToLower(cwd[i])]
    IN  [i \in DOMAIN lower |-> IF lower[i] = "/" THEN "-" ELSE lower[i]]

\* safePathFromCwd (lines 21-23)
SafePathFromCwd(cwd) ==
    LET lower == [i \in DOMAIN cwd |-> ToLower(cwd[i])]
        dashed == [i \in DOMAIN lower |-> IF lower[i] = "/" THEN "-" ELSE lower[i]]
    IN  IF dashed # <<>> /\ dashed[1] = "-" THEN Tail(dashed) ELSE dashed

HOME == <<"/", "h">>
StatusRoot == <<"/", ".", "p", "i", "/", "s", "t", "a", "t", "u", "s", "/">>
Jsonl == <<".", "j", "s", "o", "n", "l">>

\* getStatusFile (lines 25-30); override is process.env.PI_STATUS_FILE, <<>> if unset
GetStatusFile(cwd, override) ==
    IF override # <<>> THEN override
    ELSE HOME \o StatusRoot \o SafePathFromCwd(cwd) \o Jsonl

\* The working directory of the session (ctx.cwd) and the environment.
Cwd == <<"/", "P", "/", "m">>
PI_STATUS_FILE == <<>>

\* ---- the turns the agent runtime reports (event.messages)
TextOk == Text(<<"o", "k">>)
TextLong == <<Run("a", MAX_MESSAGE_CHARS + 1)>>
TextCap == <<Run("a", MAX_MESSAGE_CHARS - 1), Run("b", 1)>>    \* exactly the cap

StringContent(t) == [kind |-> "string", text |-> t, parts |-> <<>>]
ArrayContent(ps) == [kind |-> "array", text |-> <<>>, parts |-> ps]
NoContent == [kind |-> "none", text |-> <<>>, parts |-> <<>>]

Msg(role, c, stop) == [role |-> role, content |-> c, stopReason |-> stop,
                       errorMessage |-> "null"]

UserMsg == Msg("user", StringContent(Text(<<"g", "o">>)), "null")
ToolResultMsg == Msg("toolResult", StringContent(Text(<<"r">>)), "null")

TurnMessages ==
    { <<>>,                                                   \* event.messages undefined
      <<UserMsg>>,
      <<UserMsg, Msg("assistant", StringContent(TextOk), "stop")>>,
      <<UserMsg,
        Msg("assistant",
            ArrayContent(<<[type |-> "text", text |-> Text(<<"a">>)],
                           [type |-> "toolCall", text |-> <<>>],
                           [type |-> "text", text |-> Text(<<"b", " ">>)]>>), "toolUse"),
        ToolResultMsg>>,
      <<Msg("assistant", StringContent(TextOk), "stop"), UserMsg,
        Msg("assistant", StringContent(TextLong), "length")>>,
      <<UserMsg, Msg("assistant", StringContent(TextCap), "stop")>> }

HasAssistant(messages) == \E i \in DOMAIN messages : messages[i].role = "assistant"

\* A subscriber that has not been started.
IdleSubscriber ==
    [state |-> "idle", mode |-> "none", timeout |-> FALSE, offset |-> 0,
     outcome |-> "none", entry |-> 0, value |-> <<>>]

InitStatus ==
    /\ statusFile = <<>>
    /\ statusLog = <<>>
    /\ statusRaised = FALSE
    /\ statusFaults = 0
    /\ turns = <<>>
    /\ clock = 0
    /\ subs = [s \in 1..MaxReaders |-> IdleSubscriber]

\* pi.on("session_start") (lines 54-57); mkdirSync may throw.
StatusSessionStart ==
    /\ statusFile' = GetStatusFile(Cwd, PI_STATUS_FILE)
    /\ \/ UNCHANGED <<statusRaised, statusFaults>>
       \/ /\ statusFaults < MaxStatusFaults
          /\ statusFaults' = statusFaults + 1
          /\ statusRaised' = TRUE
    /\ UNCHANGED <<statusLog, turns, clock, subs>>
    /\ UNCHANGED <<queueVars, codecVars, pathVars, metaVars>>

\* appendFileSync(statusFile, `${JSON.stringify(entry)}\n`)
AppendStatusMut(log, entry) == <<entry>>
AppendStatus(log, entry) == Append(log, entry)

\* pi.on("agent_end") (lines 59-83)
AgentEnd(messages, sessionFile) ==
    /\ Len(turns) < MaxTurns
    /\ IF statusFile = <<>>
       THEN UNCHANGED <<statusLog, statusRaised, statusFaults, turns, clock>>  \* line 60
       ELSE LET last == LastAssistant(messages) IN
            IF last = 0
            THEN /\ turns' = Append(turns, [assistant |-> HasAssistant(messages),
                                            failed |-> FALSE, appended |-> 0,
                                            text |-> <<>>, index |-> 0])
                 /\ UNCHANGED <<statusLog, statusRaised, statusFaults, clock>>  \* line 65
            ELSE LET lastAssistant == messages[last]
                     extracted == ExtractText(lastAssistant.content)
                     cut == TruncateMessage(extracted)
                     entry == [timestamp |-> clock',
                               status |-> "done",
                               role |-> "assistant",
                               stopReason |-> lastAssistant.stopReason,
                               errorMessage |-> lastAssistant.errorMessage,
                               truncated |-> cut.truncated,
                               message |-> cut.text,
                               cwd |-> Cwd,
                               sessionFile |-> sessionFile]
                 IN /\ \E tick \in {0, 1} : clock' = clock + tick           \* Date.now()
                    /\ \/ /\ statusLog' = AppendStatus(statusLog, entry)
                          /\ turns' = Append(turns, [assistant |-> HasAssistant(messages),
                                                     failed |-> FALSE,
                                                     appended |-> Len(statusLog') - Len(statusLog),
                                                     text |-> extracted,
                                                     index |-> Len(statusLog')])
                          /\ UNCHANGED <<statusRaised, statusFaults>>
                       \/ /\ statusFaults < MaxStatusFaults   \* appendFileSync throws
                          /\ statusFaults' = statusFaults + 1
                          /\ statusRaised' = TRUE
                          /\ turns' = Append(turns, [assistant |-> HasAssistant(messages),
                                                     failed |-> TRUE, appended |-> 0,
                                                     text |-> extracted, index |-> 0])
                          /\ UNCHANGED statusLog
    /\ UNCHANGED <<statusFile, subs>>
    /\ UNCHANGED <<queueVars, codecVars, pathVars, metaVars>>

\* ------------------------------------------------------------------ controller: dev pi-subscribe
\* A subscriber only reads the status log. In its record, `offset` is the length
\* of the log when the subscription started, `timeout` whether --timeout was given, `entry` the index of the entry
\* returned and `value` the entry itself (<<>> when none was returned).
\* The subscriber returns the entry at index i of the log it reads.
ReturnedMut(sub, log, i) ==
    [sub EXCEPT !.state = "done", !.outcome = "entry", !.entry = i,
                !.value = <<log[Len(log)]>>]
Returned(sub, log, i) ==
    [sub EXCEPT !.state = "done", !.outcome = "entry", !.entry = i, !.value = <<log[i]>>]

\* The subscriber starts to wait for an entry appended after the ones in `log`.
Waiting(sub, log) == [sub EXCEPT !.state = "waiting", !.offset = Len(log)]

\* Subscribers are numbered in the order in which they are started.
Startable(s) ==
    /\ subs[s].state = "idle"
    /\ \A r \in DOMAIN subs : r < s => subs[r].state # "idle"

SubscribeLastMut(s) ==
    /\ Startable(s)
    /\ LET sub == [subs[s] EXCEPT !.mode = "last", !.offset = Len(statusLog)]
       IN  subs' = [subs EXCEPT ![s] =
                      IF Len(statusLog) > 0
                      THEN Returned(sub, statusLog, Len(statusLog))
                      ELSE Waiting(sub, statusLog)]
    /\ UNCHANGED <<statusFile, statusLog, statusRaised, statusFaults, turns, clock>>
    /\ UNCHANGED <<queueVars, codecVars, pathVars, metaVars>>

SubscribeLastTakesMut(s) ==
    /\ Startable(s)
    /\ LET sub == [subs[s] EXCEPT !.mode = "last", !.offset = Len(statusLog)]
       IN  subs' = [subs EXCEPT ![s] =
                      IF Len(statusLog) > 0
                      THEN Returned(sub, statusLog, Len(statusLog))
                      ELSE [sub EXCEPT !.state = "done", !.outcome = "noEntries"]]
    /\ statusLog' = IF Len(statusLog) > 0
                    THEN SubSeq(statusLog, 1, Len(statusLog) - 1) ELSE statusLog
    /\ UNCHANGED <<statusFile, statusRaised, statusFaults, turns, clock>>
    /\ UNCHANGED <<queueVars, codecVars, pathVars, metaVars>>

\* --last: the most recent entry, or "no entries"; never waits.
SubscribeLast(s) ==
    /\ Startable(s)
    /\ LET sub == [subs[s] EXCEPT !.mode = "last", !.offset = Len(statusLog)]
       IN  subs' = [subs EXCEPT ![s] =
                      IF Len(statusLog) > 0
                      THEN Returned(sub, statusLog, Len(statusLog))
                      ELSE [sub EXCEPT !.state = "done", !.outcome = "noEntries"]]
    /\ UNCHANGED <<statusFile, statusLog, statusRaised, statusFaults, turns, clock>>
    /\ UNCHANGED <<queueVars, codecVars, pathVars, metaVars>>

\* The default mode: wait for the next entry.
SubscribeNext(s, timeout) ==
    /\ Startable(s)
    /\ subs' = [subs EXCEPT ![s] =
                  Waiting([subs[s] EXCEPT !.mode = "next", !.timeout = timeout],
                          statusLog)]
    /\ UNCHANGED <<statusFile, statusLog, statusRaised, statusFaults, turns, clock>>
    /\ UNCHANGED <<queueVars, codecVars, pathVars, metaVars>>

SubscribeLastOrNextMut(s, timeout) ==
    /\ Startable(s)
    /\ subs' = [subs EXCEPT ![s] =
                  Waiting([subs[s] EXCEPT !.mode = "lastOrNext", !.timeout = timeout],
                          statusLog)]
    /\ UNCHANGED <<statusFile, statusLog, statusRaised, statusFaults, turns, clock>>
    /\ UNCHANGED <<queueVars, codecVars, pathVars, metaVars>>

\* --last-or-next: the most recent entry if there is one, otherwise as Next.
SubscribeLastOrNext(s, timeout) ==
    /\ Startable(s)
    /\ LET sub == [subs[s] EXCEPT !.mode = "lastOrNext", !.timeout = timeout,
                                  !.offset = Len(statusLog)]
       IN  subs' = [subs EXCEPT ![s] =
                      IF Len(statusLog) > 0
                      THEN Returned(sub, statusLog, Len(statusLog))
                      ELSE Waiting(sub, statusLog)]
    /\ UNCHANGED <<statusFile, statusLog, statusRaised, statusFaults, turns, clock>>
    /\ UNCHANGED <<queueVars, codecVars, pathVars, metaVars>>

SubscriberWakeMut(s) ==
    /\ subs[s].state = "waiting"
    /\ Len(statusLog) > subs[s].offset
    /\ subs' = [subs EXCEPT ![s] = Returned(subs[s], statusLog, 1)]
    /\ UNCHANGED <<statusFile, statusLog, statusRaised, statusFaults, turns, clock>>
    /\ UNCHANGED <<queueVars, codecVars, pathVars, metaVars>>

\* A waiting subscriber polls the log and finds an entry appended after it started.
SubscriberWake(s) ==
    /\ subs[s].state = "waiting"
    /\ Len(statusLog) > subs[s].offset
    /\ subs' = [subs EXCEPT ![s] = Returned(subs[s], statusLog, subs[s].offset + 1)]
    /\ UNCHANGED <<statusFile, statusLog, statusRaised, statusFaults, turns, clock>>
    /\ UNCHANGED <<queueVars, codecVars, pathVars, metaVars>>

SubscriberTimeoutMut(s) ==
    /\ subs[s].state = "waiting"
    /\ subs[s].timeout
    /\ Len(statusLog) > subs[s].offset
    /\ subs' = [subs EXCEPT ![s].state = "done", ![s].outcome = "timeout"]
    /\ UNCHANGED <<statusFile, statusLog, statusRaised, statusFaults, turns, clock>>
    /\ UNCHANGED <<queueVars, codecVars, pathVars, metaVars>>

\* --timeout N: the window ends with nothing appended.
SubscriberTimeout(s) ==
    /\ subs[s].state = "waiting"
    /\ subs[s].timeout
    /\ Len(statusLog) = subs[s].offset
    /\ subs' = [subs EXCEPT ![s].state = "done", ![s].outcome = "timeout"]
    /\ UNCHANGED <<statusFile, statusLog, statusRaised, statusFaults, turns, clock>>
    /\ UNCHANGED <<queueVars, codecVars, pathVars, metaVars>>

\* ------------------------------------------------------------------ controller: session names
\* A component is a non-empty string, here a sequence of characters; an absent
\* optional component is None. A session name (flatId) is a sequence of characters.
SEP == "_"
Alphabet == {"a", SEP}
None == <<>>
Components == UNION {[1..n -> Alphabet] : n \in 1..MaxCompLen}

SessionAddress(project, worktree, subsession) ==
    [project |-> project, worktree |-> worktree, subsession |-> subsession]

\* The components an address has, in order.
Present(a) == SelectSeq(<<a.project, a.worktree, a.subsession>>, LAMBDA c : c # None)

HasSep(c) == \E i \in DOMAIN c : c[i] = SEP

ValidAddressMut(a) == ~HasSep(a.project)
\* No component contains the reserved separator.
ValidAddress(a) == \A i \in DOMAIN Present(a) : ~HasSep(Present(a)[i])

RECURSIVE JoinMut(_)
JoinMut(parts) ==
    IF parts = <<>> THEN <<>> ELSE Head(parts) \o JoinMut(Tail(parts))

\* The parts joined with a single separator between neighbours.
RECURSIVE Join(_)
Join(parts) ==
    IF Len(parts) <= 1 THEN (IF parts = <<>> THEN <<>> ELSE Head(parts))
    ELSE Head(parts) \o <<SEP>> \o Join(Tail(parts))

\* The parts of a name between its separators.
RECURSIVE Split(_)
Split(name) ==
    IF \A i \in DOMAIN name : name[i] # SEP THEN <<name>>
    ELSE LET k == CHOOSE i \in DOMAIN name :
                     name[i] = SEP /\ \A j \in 1..(i - 1) : name[j] # SEP
         IN  <<SubSeq(name, 1, k - 1)>> \o Split(SubSeq(name, k + 1, Len(name)))

\* encode(address) -> flatId, or InvalidAddressComponent
Encode(a) ==
    IF ValidAddress(a)
    THEN [ok |-> TRUE, flatId |-> Join(Present(a)), error |-> "none"]
    ELSE [ok |-> FALSE, flatId |-> None, error |-> "InvalidAddressComponent"]

\* decode(flatId) -> address: the parts of the name, taken in order.
Decode(name) ==
    LET parts == Split(name)
    IN  SessionAddress(parts[1],
                       IF Len(parts) >= 2 THEN parts[2] ELSE None,
                       IF Len(parts) >= 3 THEN parts[3] ELSE None)

InitCodec ==
    /\ codecPc = "idle"
    /\ address = SessionAddress(None, None, None)
    /\ flatId = None
    /\ codecError = "none"
    /\ decoded = SessionAddress(None, None, None)

\* The controller builds an address from a typed path and encodes it.
EncodeAddress(project, worktree, subsession) ==
    /\ codecPc = "idle"
    /\ address' = SessionAddress(project, worktree, subsession)
    /\ LET encoded == Encode(address')
       IN  /\ codecPc' = IF encoded.ok THEN "encoded" ELSE "rejected"
           /\ flatId' = encoded.flatId
           /\ codecError' = encoded.error
    /\ UNCHANGED decoded
    /\ UNCHANGED <<queueVars, statusVars, pathVars, metaVars>>

\* The controller decodes a session name it produced.
DecodeFlatId ==
    /\ codecPc = "encoded"
    /\ decoded' = Decode(flatId)
    /\ codecPc' = "decoded"
    /\ UNCHANGED <<address, flatId, codecError>>
    /\ UNCHANGED <<queueVars, statusVars, pathVars, metaVars>>

\* ------------------------------------------------------------------ the files of a session
QueueRoot == <<"/", ".", "p", "i", "/", "q", "u", "e", "u", "e", "s", "/">>

QueueSafePathMut(cwd) ==
    LET dashed == [i \in DOMAIN cwd |-> IF cwd[i] = "/" THEN "-" ELSE cwd[i]]
    IN  IF dashed # <<>> /\ dashed[1] = "-" THEN Tail(dashed) ELSE dashed

\* The safePath of getQueueFile (message-queue.ts line 25):
\* cwd.toLowerCase().replace(/\//g, "-").replace(/^-/, "")
QueueSafePath(cwd) ==
    LET lower == [i \in DOMAIN cwd |-> ToLower(cwd[i])]
        dashed == [i \in DOMAIN lower |-> IF lower[i] = "/" THEN "-" ELSE lower[i]]
    IN  IF dashed # <<>> /\ dashed[1] = "-" THEN Tail(dashed) ELSE dashed

\* getQueueFile (message-queue.ts lines 24-27)
GetQueueFile(cwd) == HOME \o QueueRoot \o QueueSafePath(cwd) \o Jsonl

\* The names the controller addresses a session by (dev send-pi <session>).
PathNames == {<<"a">>, <<"a", SEP, "a">>}

\* process.cwd() of a session: an absolute, normalized path.
PathAlphabet == {"/", "-", "p", "P"}
IsCwd(c) ==
    /\ c[1] = "/"
    /\ \A i \in 1..(Len(c) - 1) : ~(c[i] = "/" /\ c[i + 1] = "/")
    /\ Len(c) > 1 => c[Len(c)] # "/"
Cwds == {c \in UNION {[1..n -> PathAlphabet] : n \in 1..MaxPathLen} : IsCwd(c)}

NotStarted ==
    [started |-> FALSE, name |-> <<>>, cwd |-> <<>>, fsKey |-> <<>>, queueFile |-> <<>>,
     statusFile |-> <<>>]

InitPaths == sessions = [i \in {1, 2} |-> NotStarted]

\* session_start of the session the controller calls `name`, in the working
\* directory cwd: both extensions resolve their file from ctx.cwd
\* (message-queue.ts line 77, part_006 line 55).
PathSessionStart(i, name, cwd) ==
    /\ ~sessions[i].started
    /\ sessions' = [sessions EXCEPT ![i] =
                      [started |-> TRUE, name |-> name, cwd |-> cwd,
                       fsKey |-> QueueSafePath(cwd),
                       queueFile |-> GetQueueFile(cwd),
                       statusFile |-> GetStatusFile(cwd, PI_STATUS_FILE)]]
    /\ UNCHANGED <<queueVars, statusVars, codecVars, metaVars>>

\* ================================================================== kw-role.ts
\* A string is a sequence of characters; the two command words are kept as one
\* character each.
ROLE_MARKER == "knowledge-worker"
KW_TAGS == "/kw-tags"
KW_NOTE == "/kw-note"
KwSpace == {" ", "\n"}                         \* what \s matches

\* isKnowledgeWorker (lines 13-15)
IsKnowledgeWorkerMut(env) == TRUE
IsKnowledgeWorker(env) == env.PI_ROLE = ROLE_MARKER \/ env.PI_KW_ROLE = "1"

\* `if (metaFile)` (lines 47, 75, 118, 146)
HasMetaFile(env) == env.PI_KW_META_FILE # ""

\* String.prototype.trim on a sequence of characters
RECURSIVE TrimStart(_)
TrimStart(t) == IF t # <<>> /\ Head(t) \in KwSpace THEN TrimStart(Tail(t)) ELSE t
RECURSIVE TrimEnd(_)
TrimEnd(t) ==
    IF t # <<>> /\ t[Len(t)] \in KwSpace THEN TrimEnd(SubSeq(t, 1, Len(t) - 1)) ELSE t
TrimString(t) == TrimEnd(TrimStart(t))

\* String.prototype.split on a character class
RECURSIVE SplitOn(_, _)
SplitOn(t, seps) ==
    IF \A i \in DOMAIN t : t[i] \notin seps THEN <<t>>
    ELSE LET k == CHOOSE i \in DOMAIN t :
                     t[i] \in seps /\ \A j \in 1..(i - 1) : t[j] \notin seps
         IN  <<SubSeq(t, 1, k - 1)>> \o SplitOn(SubSeq(t, k + 1, Len(t)), seps)

ParseTagsMut(raw) ==
    IF raw = <<>> THEN <<>>
    ELSE LET pieces == SplitOn(raw, {","})
         IN  SelectSeq([i \in DOMAIN pieces |-> TrimString(pieces[i])],
                       LAMBDA tag : tag # <<>>)

\* parseTags (lines 17-23)
ParseTags(raw) ==
    IF raw = <<>> THEN <<>>
    ELSE LET pieces == SplitOn(raw, {";", ","})
         IN  SelectSeq([i \in DOMAIN pieces |-> TrimString(pieces[i])],
                       LAMBDA tag : tag # <<>>)

\* ---- the metadata file and the object in it. A field of the object is <<>>
\* when the object has no such key and <<value>> when it has; `owner` stands for
\* the fields kw-role.ts does not know.
EmptyObject == [tags |-> <<>>, description |-> <<>>, updatedAt |-> <<>>, owner |-> <<>>]
ObjectFile(obj) == [kind |-> "object", obj |-> obj]
MissingFile == [kind |-> "missing", obj |-> EmptyObject]
CorruptFile == [kind |-> "corrupt", obj |-> EmptyObject]     \* not JSON
NullFile == [kind |-> "null", obj |-> EmptyObject]           \* the JSON text null

FsFaults == {"none", "read", "write"}

\* Lines 26-32: what `current` is after the first try.
ReadCurrent(file, fault) ==
    IF fault = "read" \/ file.kind \in {"missing", "corrupt"}
    THEN ObjectFile(EmptyObject)
    ELSE file

\* { ...current }: spreading null gives no key.
Spread(current) == IF current.kind = "null" THEN EmptyObject ELSE current.obj

DescriptionOrMut(obj) == <<>>

\* current.description || ""
DescriptionOr(obj) == IF obj.description = <<>> THEN <<>> ELSE obj.description[1]

TagsUpdate(tagList) == [field |-> "tags", value |-> tagList]
NoteUpdate(text) == [field |-> "description", value |-> text]

\* The updater closures of lines 81-85, 94-98, 126-130 and 137-141, applied to
\* `current` at the time `now`. Reading current.description of null throws.
Updater(update, current, now) ==
    IF update.field = "tags"
    THEN [threw |-> FALSE,
          obj |-> [Spread(current) EXCEPT !.tags = <<update.value>>,
                                          !.updatedAt = <<now>>]]
    ELSE IF update.value = <<>> /\ current.kind = "null"
         THEN [threw |-> TRUE, obj |-> EmptyObject]
         ELSE [threw |-> FALSE,
               obj |-> [Spread(current) EXCEPT
                          !.description = <<IF update.value # <<>> THEN update.value
                                            ELSE DescriptionOr(Spread(current))>>,
                          !.updatedAt = <<now>>]]

\* updateMeta (lines 25-40): the file afterwards, whether it was written, and
\* whether an exception left the function.
UpdateMeta(file, update, now, fault) ==
    LET updated == Updater(update, ReadCurrent(file, fault), now)
    IN  IF updated.threw THEN [file |-> file, wrote |-> FALSE, raised |-> TRUE]
        ELSE IF fault = "write" THEN [file |-> file, wrote |-> FALSE, raised |-> FALSE]
        ELSE [file |-> ObjectFile(updated.obj), wrote |-> TRUE, raised |-> FALSE]

\* ---- text.match(/^\s*\/kw-tags\s+(.+)$/m) and the same for /kw-note
NoMatch == [found |-> FALSE, payload |-> <<>>]

\* The first position from p on that holds no whitespace (Len + 1 when none).
SkipSpace(text, p) ==
    IF \A i \in p..Len(text) : text[i] \in KwSpace THEN Len(text) + 1
    ELSE CHOOSE q \in p..Len(text) :
             text[q] \notin KwSpace /\ \A i \in p..(q - 1) : text[i] \in KwSpace

\* The last position of the line that position r is on.
LineEnd(text, r) ==
    CHOOSE e \in r..Len(text) :
        /\ \A i \in r..e : text[i] # "\n"
        /\ e = Len(text) \/ text[e + 1] = "\n"

\* The match that starts at p: \s*, the word, \s+ as long as it can be with one
\* character other than a newline left for (.+), which runs to the end of its line.
MatchAt(text, p, word) ==
    LET q == SkipSpace(text, p)
        after == SkipSpace(text, q + 1)
        groups == {r \in (q + 2)..after : r <= Len(text) /\ text[r] # "\n"}
    IN  IF q > Len(text) \/ text[q] # word \/ groups = {} THEN NoMatch
        ELSE LET r == CHOOSE x \in groups : \A y \in groups : y <= x
             IN  [found |-> TRUE, payload |-> SubSeq(text, r, LineEnd(text, r))]

\* The leftmost match; with the m flag ^ matches at the start of every line.
Match(text, word) ==
    LET ps == {p \in DOMAIN text :
                  (p = 1 \/ text[p - 1] = "\n") /\ MatchAt(text, p, word).found}
    IN  IF ps = {} THEN NoMatch
        ELSE MatchAt(text, CHOOSE p \in ps : \A o \in ps : p <= o, word)

\* Array.prototype.join(" ") on strings
RECURSIVE KwJoin(_)
KwJoin(ts) ==
    IF ts = <<>> THEN <<>>
    ELSE IF Len(ts) = 1 THEN ts[1]
         ELSE ts[1] \o <<" ">> \o KwJoin(Tail(ts))

\* extractText (lines 104-115)
KwExtractText(c) ==
    IF c.kind = "string" THEN c.text
    ELSE IF c.kind = "array"
         THEN LET texts == SelectSeq(c.parts, LAMBDA part : part.type = "text")
              IN  TrimString(KwJoin([i \in DOMAIN texts |-> texts[i].text]))
         ELSE <<>>

\* Line 148: the index of the last assistant message, 0 when there is none.
KwLastAssistant(messages) ==
    IF \E i \in DOMAIN messages : messages[i].role = "assistant"
    THEN CHOOSE i \in DOMAIN messages :
             messages[i].role = "assistant"
             /\ \A j \in (i + 1)..Len(messages) : messages[j].role # "assistant"
    ELSE 0

\* ---- inputs
Envs ==
    { [PI_ROLE |-> role, PI_KW_ROLE |-> flag, PI_KW_META_FILE |-> file, PI_KW_TAGS |-> <<>>] :
        role \in {ROLE_MARKER, ""}, flag \in {"1", ""}, file \in {"meta.json", ""} }

OldObject ==
    [tags |-> << << <<"o">> >> >>, description |-> << <<"o", "l", "d">> >>,
     updatedAt |-> <<0>>, owner |-> <<"pm">>]

InitialMetaFiles == {MissingFile, CorruptFile, NullFile, ObjectFile(OldObject)}

KwTagsArgs ==
    { <<>>,
      <<"a", ",", "b">>,
      <<" ", "a", " ", "b", ";", ",", "b", " ">>,
      <<",", " ", ";">> }

KwNoteArgs == { <<>>, <<"a", " ", "b">>, <<"b">> }

KwUserMsg == Msg("user", StringContent(<<"g", "o">>), "null")
KwAssistant(text) == Msg("assistant", StringContent(text), "stop")

KwTurnMessages ==
    { <<>>,                                                   \* event.messages undefined
      <<KwUserMsg>>,
      <<KwUserMsg, KwAssistant(<<"o", "k">>)>>,
      <<KwUserMsg, KwAssistant(<<KW_TAGS, " ", "a", ",", "b", "\n",
                                 KW_NOTE, " ", "a", " ", "b">>)>>,
      <<KwAssistant(<<KW_TAGS, " ", "b">>), KwUserMsg, KwAssistant(<<"o", "k">>)>>,
      <<KwUserMsg, KwAssistant(<<KW_TAGS, " ", "a", "\n", KW_TAGS, " ", "b">>)>>,
      <<KwUserMsg,
        Msg("assistant",
            ArrayContent(<<[type |-> "text", text |-> <<"x", "\n">>],
                           [type |-> "toolCall", text |-> <<>>],
                           [type |-> "text", text |-> <<KW_NOTE, " ", "b", " ">>]>>),
            "toolUse")>>,
      <<KwUserMsg, KwAssistant(<<KW_TAGS, "\n", "b">>)>> }

\* ---- state
NoOp == [kind |-> "none", args |-> <<>>, messages |-> <<>>, before |-> MissingFile,
         faults |-> <<>>]

\* No updateMeta call is under way.
NoPending == [active |-> FALSE, current |-> MissingFile, update |-> TagsUpdate(<<>>),
              between |-> <<>>]

InitMetaWith(env, file) ==
    /\ kwEnv = env
    /\ metaFile = file
    /\ currentTags = ParseTags(env.PI_KW_TAGS)                 \* line 48
    /\ currentDescription = <<>>
    /\ metaNow = 0
    /\ metaWrites = 0
    /\ metaFaults = 0
    /\ metaOps = 0
    /\ kwRaised = FALSE
    /\ lastOp = NoOp
    /\ metaPending = NoPending

InitMeta ==
    InitMetaWith([PI_ROLE |-> ROLE_MARKER, PI_KW_ROLE |-> "", PI_KW_META_FILE |-> "meta.json",
                  PI_KW_TAGS |-> <<>>], MissingFile)

\* The commands of lines 76-101 exist only in an enabled session with a file.
CommandsRegistered == IsKnowledgeWorker(kwEnv) /\ HasMetaFile(kwEnv)

\* A fault is injected only into a call that is made and that would have succeeded.
FaultFits(file, fault) == fault = "read" => file.kind \in {"object", "null"}

Cost(fault) == IF fault = "none" THEN 0 ELSE 1

\* The user runs /kw-tags <args> (lines 78-87).
KwTags(args, fault) ==
    /\ metaOps < MaxMetaOps
    /\ ~metaPending.active
    /\ UNCHANGED metaPending
    /\ metaOps' = metaOps + 1
    /\ lastOp' = [kind |-> "kw-tags", args |-> args, messages |-> <<>>,
                  before |-> metaFile, faults |-> <<fault>>]
    /\ IF CommandsRegistered
       THEN /\ FaultFits(metaFile, fault)
            /\ metaFaults + Cost(fault) <= MaxMetaFaults
            /\ metaFaults' = metaFaults + Cost(fault)
            /\ metaNow' = metaNow + 1
            /\ LET tagList == ParseTags(args)
                   res == UpdateMeta(metaFile, TagsUpdate(tagList), metaNow', fault)
               IN  /\ currentTags' = tagList
                   /\ metaFile' = res.file
                   /\ metaWrites' = metaWrites + (IF res.wrote THEN 1 ELSE 0)
                   /\ kwRaised' = (kwRaised \/ res.raised)
            /\ UNCHANGED currentDescription
       ELSE /\ fault = "none"
            /\ UNCHANGED <<metaFile, currentTags, currentDescription, metaNow, metaWrites,
                           metaFaults, kwRaised>>
    /\ UNCHANGED kwEnv
    /\ UNCHANGED <<queueVars, statusVars, codecVars, pathVars>>

\* The user runs /kw-note <args> (lines 92-100).
KwNote(args, fault) ==
    /\ metaOps < MaxMetaOps
    /\ ~metaPending.active
    /\ UNCHANGED metaPending
    /\ metaOps' = metaOps + 1
    /\ lastOp' = [kind |-> "kw-note", args |-> args, messages |-> <<>>,
                  before |-> metaFile, faults |-> <<fault>>]
    /\ IF CommandsRegistered
       THEN /\ FaultFits(metaFile, fault)
            /\ metaFaults + Cost(fault) <= MaxMetaFaults
            /\ metaFaults' = metaFaults + Cost(fault)
            /\ metaNow' = metaNow + 1
            /\ currentDescription' = IF args # <<>> THEN args ELSE currentDescription
            /\ LET res == UpdateMeta(metaFile, NoteUpdate(args), metaNow', fault)
               IN  /\ metaFile' = res.file
                   /\ metaWrites' = metaWrites + (IF res.wrote THEN 1 ELSE 0)
                   /\ kwRaised' = (kwRaised \/ res.raised)
            /\ UNCHANGED currentTags
       ELSE /\ fault = "none"
            /\ UNCHANGED <<metaFile, currentTags, currentDescription, metaNow, metaWrites,
                           metaFaults, kwRaised>>
    /\ UNCHANGED kwEnv
    /\ UNCHANGED <<queueVars, statusVars, codecVars, pathVars>>

\* pi.on("agent_end") with applyInlineMeta (lines 117-152). The tags update, if
\* any, is written before the note update reads the file.
KwAgentEnd(messages, tagFault, noteFault) ==
    /\ metaOps < MaxMetaOps
    /\ ~metaPending.active
    /\ UNCHANGED metaPending
    /\ metaOps' = metaOps + 1
    /\ lastOp' = [kind |-> "agent_end", args |-> <<>>, messages |-> messages,
                  before |-> metaFile, faults |-> <<tagFault, noteFault>>]
    /\ LET last == KwLastAssistant(messages)
           text == IF last = 0 THEN <<>> ELSE KwExtractText(messages[last].content)
           scans == CommandsRegistered /\ last # 0 /\ text # <<>>   \* lines 43, 146, 149, 118
           tagMatch == IF scans THEN Match(text, KW_TAGS) ELSE NoMatch
           noteMatch == IF scans THEN Match(text, KW_NOTE) ELSE NoMatch
           tagList == ParseTags(tagMatch.payload)
           noteText == TrimString(noteMatch.payload)
           now1 == metaNow + (IF tagMatch.found THEN 1 ELSE 0)
           first == IF tagMatch.found
                    THEN UpdateMeta(metaFile, TagsUpdate(tagList), now1, tagFault)
                    ELSE [file |-> metaFile, wrote |-> FALSE, raised |-> FALSE]
           now2 == now1 + (IF noteMatch.found THEN 1 ELSE 0)
           second == IF noteMatch.found
                     THEN UpdateMeta(first.file, NoteUpdate(noteText), now2, noteFault)
                     ELSE [file |-> first.file, wrote |-> FALSE, raised |-> FALSE]
       IN  /\ tagFault # "none" => tagMatch.found /\ FaultFits(metaFile, tagFault)
           /\ noteFault # "none" => noteMatch.found /\ FaultFits(first.file, noteFault)
           /\ metaFaults + Cost(tagFault) + Cost(noteFault) <= MaxMetaFaults
           /\ metaFaults' = metaFaults + Cost(tagFault) + Cost(noteFault)
           /\ metaNow' = now2
           /\ currentTags' = IF tagMatch.found THEN tagList ELSE currentTags
           /\ currentDescription' = IF noteMatch.found /\ noteText # <<>>
                                    THEN noteText ELSE currentDescription
           /\ metaFile' = second.file
           /\ metaWrites' = metaWrites + (IF first.wrote THEN 1 ELSE 0)
                                       + (IF second.wrote THEN 1 ELSE 0)
           /\ kwRaised' = (kwRaised \/ first.raised \/ second.raised)
    /\ UNCHANGED kwEnv
    /\ UNCHANGED <<queueVars, statusVars, codecVars, pathVars>>

\* ------------------------------------------------------------------ updateMeta and another writer
\* The controller is another process, so updateMeta is split at its two system
\* calls. A command, up to the read of updateMeta (lines 78-80 or 92-93, then
\* lines 26-32).
KwCommandRead(kind, args) ==
    /\ metaOps < MaxMetaOps
    /\ CommandsRegistered
    /\ ~metaPending.active
    /\ LET update == IF kind = "kw-tags" THEN TagsUpdate(ParseTags(args)) ELSE NoteUpdate(args)
       IN  /\ metaPending' = [active |-> TRUE, current |-> ReadCurrent(metaFile, "none"),
                              update |-> update, between |-> <<>>]
           /\ currentTags' = IF kind = "kw-tags" THEN update.value ELSE currentTags
           /\ currentDescription' = IF kind = "kw-note" /\ args # <<>>
                                    THEN args ELSE currentDescription
    /\ metaOps' = metaOps + 1
    /\ lastOp' = [kind |-> kind, args |-> args, messages |-> <<>>, before |-> metaFile,
                  faults |-> <<"none">>]
    /\ UNCHANGED <<kwEnv, metaFile, metaNow, metaWrites, metaFaults, kwRaised>>
    /\ UNCHANGED <<queueVars, statusVars, codecVars, pathVars>>

\* The rest of updateMeta (lines 34-39): the updater runs on what was read and
\* the result is written.
UpdateMetaWrite ==
    /\ metaPending.active
    /\ metaNow' = metaNow + 1
    /\ LET updated == Updater(metaPending.update, metaPending.current, metaNow')
       IN  IF updated.threw
           THEN kwRaised' = TRUE /\ UNCHANGED <<metaFile, metaWrites>>
           ELSE /\ metaFile' = ObjectFile(updated.obj)
                /\ metaWrites' = metaWrites + 1
                /\ UNCHANGED kwRaised
    /\ metaPending' = NoPending
    /\ UNCHANGED <<kwEnv, currentTags, currentDescription, metaFaults, metaOps, lastOp>>
    /\ UNCHANGED <<queueVars, statusVars, codecVars, pathVars>>

\* What the controller sets from the shell: dev kw-tags <repo>/<name> "c" and
\* dev kw-note <repo>/<name> "c".
ControllerTags == TagsUpdate(<< <<"c">> >>)
ControllerNote == NoteUpdate(<<"c">>)

\* dev kw-tags / dev kw-note: the controller sets one field of the file.
ControllerSet(update) ==
    /\ metaOps < MaxMetaOps
    /\ metaOps' = metaOps + 1
    /\ LET obj == Spread(ReadCurrent(metaFile, "none"))
       IN  metaFile' = ObjectFile(IF update.field = "tags"
                                  THEN [obj EXCEPT !.tags = <<update.value>>]
                                  ELSE [obj EXCEPT !.description = <<update.value>>])
    /\ metaPending' = IF metaPending.active
                      THEN [metaPending EXCEPT !.between = Append(@, update)]
                      ELSE metaPending
    /\ UNCHANGED <<kwEnv, currentTags, currentDescription, metaNow, metaWrites, metaFaults,
                   kwRaised, lastOp>>
    /\ UNCHANGED <<queueVars, statusVars, codecVars, pathVars>>

\* ================================================================== specifications
Init == InitQueue /\ InitStatus /\ InitCodec /\ InitPaths /\ InitMeta

\* The queue: the controller's enqueue against the consumer in the agent process.
Next ==
    \/ \E line \in Lines : Enqueue(line)
    \/ starts < MaxStarts /\ QueueSessionStart
    \/ QueueSessionShutdown
    \/ DrainStart
    \/ DrainLine
    \/ DrainRewrite

Spec == Init /\ [][Next]_vars

\* The timer keeps firing and the synchronous drain runs to its end.
LiveSpec == Spec /\ WF_vars(DrainStart) /\ WF_vars(DrainLine) /\ WF_vars(DrainRewrite)

\* The session lifecycle: session_start and session_shutdown in any order, any
\* number of times up to the bound, against the timer; the controller enqueues
\* one kind of line.
LifecycleNext ==
    \/ Enqueue(LineHello)
    \/ starts < MaxLifeStarts /\ QueueSessionStart
    \/ QueueSessionShutdown
    \/ DrainStart
    \/ DrainLine
    \/ DrainRewrite

LifecycleSpec == Init /\ [][LifecycleNext]_vars

\* The queue fed with entries of every delivery mode.
ModeNext ==
    \/ \E line \in ModeLines : Enqueue(line)
    \/ starts < MaxStarts /\ QueueSessionStart
    \/ DrainStart
    \/ DrainLine
    \/ DrainRewrite

ModeSpec == Init /\ [][ModeNext]_vars

\* The status log: the writer in the agent process.
StatusNext ==
    \/ StatusSessionStart
    \/ \E messages \in TurnMessages, sessionFile \in {"null", "s.jsonl"} :
          AgentEnd(messages, sessionFile)

StatusSpec == Init /\ [][StatusNext]_vars

\* The subscription reader: several concurrent subscribers against the writer.
\* What a subscriber does never depends on what an entry says, so the turns are
\* drawn from two kinds: one that appends an entry and one that does not.
ReaderTurnMessages ==
    { <<UserMsg>>,
      <<UserMsg, Msg("assistant", StringContent(TextOk), "stop")>> }

SubscribeNextStep ==
    \/ StatusSessionStart
    \/ \E messages \in ReaderTurnMessages : AgentEnd(messages, "s.jsonl")
    \/ \E s \in 1..MaxReaders : SubscribeLast(s)
    \/ \E s \in 1..MaxReaders, timeout \in BOOLEAN : SubscribeNext(s, timeout)
    \/ \E s \in 1..MaxReaders, timeout \in BOOLEAN : SubscribeLastOrNext(s, timeout)
    \/ \E s \in 1..MaxReaders : SubscriberWake(s)
    \/ \E s \in 1..MaxReaders : SubscriberTimeout(s)

SubscribeSpec == Init /\ [][SubscribeNextStep]_vars

\* Subscriptions with a timeout, as running processes: the poll loop and the
\* timeout timer of each of them fire.
SubscribeLiveNext ==
    \/ StatusSessionStart
    \/ \E messages \in ReaderTurnMessages : AgentEnd(messages, "s.jsonl")
    \/ \E s \in 1..MaxReaders : SubscribeNext(s, TRUE)
    \/ \E s \in 1..MaxReaders : SubscribeLastOrNext(s, TRUE)
    \/ \E s \in 1..MaxReaders : SubscriberWake(s)
    \/ \E s \in 1..MaxReaders : SubscriberTimeout(s)

SubscribeLiveSpec ==
    /\ Init /\ [][SubscribeLiveNext]_vars
    /\ \A s \in 1..MaxReaders : WF_vars(SubscriberWake(s)) /\ WF_vars(SubscriberTimeout(s))

\* Session names: every address over the components, encoded and decoded back.
CodecNext ==
    \/ \E project \in Components, worktree, subsession \in Components \cup {None} :
          EncodeAddress(project, worktree, subsession)
    \/ DecodeFlatId

CodecSpec == Init /\ [][CodecNext]_vars

\* The files of two sessions, each started in some working directory.
PathNext == \E i \in {1, 2}, name \in PathNames, cwd \in Cwds : PathSessionStart(i, name, cwd)

PathSpec == Init /\ [][PathNext]_vars

\* The knowledge-worker extension in a session loaded with any environment, on
\* any metadata file the controller left.
MetaInit ==
    /\ InitQueue /\ InitStatus /\ InitCodec /\ InitPaths
    /\ \E env \in Envs, file \in InitialMetaFiles : InitMetaWith(env, file)

MetaNext ==
    \/ \E args \in KwTagsArgs, fault \in FsFaults : KwTags(args, fault)
    \/ \E args \in KwNoteArgs, fault \in FsFaults : KwNote(args, fault)
    \/ \E messages \in KwTurnMessages, tagFault, noteFault \in FsFaults :
          KwAgentEnd(messages, tagFault, noteFault)

MetaSpec == MetaInit /\ [][MetaNext]_vars

\* The commands of a knowledge-worker session while the controller sets fields
\* of the same file.
MetaRaceNext ==
    \/ \E args \in KwTagsArgs : KwCommandRead("kw-tags", args)
    \/ \E args \in KwNoteArgs : KwCommandRead("kw-note", args)
    \/ UpdateMetaWrite
    \/ ControllerSet(ControllerTags)
    \/ ControllerSet(ControllerNote)

MetaRaceSpec == MetaInit /\ [][MetaRaceNext]_vars

\* ================================================================== properties
\* What the claims call a structurally valid entry, and a malformed line.
ValidEntries == {LineHello, LineStop}
Malformed == {LineNoMessage, LineNumMessage, LineNotJson, LineNull}
IsMalformed(l) == l \in Malformed

RECURSIVE IsSubseq(_, _)
IsSubseq(s, t) ==
    IF s = <<>> THEN TRUE
    ELSE IF t = <<>> THEN FALSE
    ELSE IF Head(s) = Head(t) THEN IsSubseq(Tail(s), Tail(t))
         ELSE IsSubseq(s, Tail(t))

IsSuffix(s, t) == Len(s) <= Len(t) /\ SubSeq(t, Len(t) - Len(s) + 1, Len(t)) = s

\* The lines handed to the agent in cycle c, in handoff order.
RECURSIVE SentIn(_, _)
SentIn(log, c) ==
    IF log = <<>> THEN <<>>
    ELSE IF Head(log).cycle = c THEN <<Head(log).line>> \o SentIn(Tail(log), c)
         ELSE SentIn(Tail(log), c)

\* The lines appended to the queue file since the running cycle read it.
AppendedSinceRead == SubSeq(queueFile, Len(content) + 1, Len(queueFile))

\* A drain cycle ends with this step (normally or through the catch).
CycleEnds == pc # "idle" /\ pc' = "idle"

\* A drain cycle ends with this step by a successful rewrite.
CycleCompletes == pc = "rewrite" /\ pc' = "idle" /\ faults' = faults

\* C1: with no handoff failure, no I/O error and no enqueue during a drain, every
\* valid entry enqueued while the cycle count was c is handed to the agent exactly
\* once, in cycle c+1 (the first cycle after it), and in no other cycle.
C1_ExactlyOnce ==
    (faults = 0 /\ ~raced) =>
        \A l \in ValidEntries : \A c \in 0..cycle :
            LET nEnq == Cardinality({i \in DOMAIN enqueued :
                                        enqueued[i].line = l /\ enqueued[i].at = c})
                nSent == Cardinality({i \in DOMAIN sent :
                                        sent[i].line = l /\ sent[i].cycle = c + 1})
            IN  IF c + 1 < cycle \/ (c + 1 = cycle /\ pc # "loop") THEN nSent = nEnq
                ELSE IF c + 1 = cycle THEN nSent <= nEnq
                ELSE nSent = 0

\* Two entries enqueued before two different cycles, each handed over once, queue empty.
C1_Witness ==
    /\ faults = 0 /\ ~raced /\ pc = "idle" /\ cycle = 2
    /\ Len(sent) = 2 /\ sent[1].cycle = 1 /\ sent[2].cycle = 2
    /\ queueExists /\ queueFile = <<>>

C3_RacingAppendKept ==
    [][(pc = "rewrite" /\ pc' = "idle") => IsSuffix(AppendedSinceRead, queueFile')]_vars

\* C4: at the end of a drain cycle, every line whose handoff failed in it is in
\* the live queue file (as often as it failed) and is not in the dead-letter file.
C4_FailedHandoffKept ==
    [][CycleEnds =>
         \A l \in Lines :
            Count(refused, l) > 0 =>
               /\ queueExists'
               /\ Count(queueFile', l) >= Count(refused, l)
               /\ Count(deadLetter', l) = 0]_vars

\* <<hello, stop>> was drained once: hello was handed over, stop was refused and
\* is what the rewrite left in the queue.
C4_Witness ==
    /\ pc = "idle" /\ cycle = 1 /\ ~raced
    /\ Len(enqueued) = 2 /\ enqueued[1].line = LineHello /\ enqueued[2].line = LineStop
    /\ Len(sent) = 1 /\ sent[1].line = LineHello
    /\ queueFile = <<LineStop>>

\* C5: while the session is alive, every valid entry in the live queue that has not
\* been handed to the agent is eventually handed to it (failures are finitely many).
C5_EventuallyHanded ==
    \A l \in ValidEntries :
        (Count(queueFile, l) > 0 /\ \A i \in DOMAIN sent : sent[i].line # l)
            ~> ((\E i \in DOMAIN sent : sent[i].line = l) \/ timers = 0)

\* C6: the entries handed to the agent in the running cycle were handed over in
\* the order of the lines read from the file.
C6_FileOrder == pc # "idle" => IsSubseq(SentIn(sent, cycle), lines)

\* Two different entries were handed over in the same cycle.
C6_Witness ==
    /\ pc = "rewrite"
    /\ Len(SentIn(sent, cycle)) = 2
    /\ SentIn(sent, cycle)[1] # SentIn(sent, cycle)[2]

\* C7: no exception leaves processQueue, and when a cycle ends (normally or after
\* an I/O failure) the timer is still live, so the next tick runs another cycle.
C7_NeverRaises ==
    [][/\ ~raised'
       /\ CycleEnds => (timers' = timers /\ timers' > 0)]_vars

\* A cycle was cut short by a failed dead-letter append: nothing was dead-lettered
\* and the queue file is as it was.
C7_Witness ==
    /\ pc = "idle" /\ cycle = 1 /\ ~raised /\ timers > 0
    /\ Len(enqueued) = 1 /\ queueFile = <<LineNotJson>>
    /\ deadLetter = <<>>

\* C8: the dead-letter file only grows at its end; every line handed to the agent
\* is a well-formed line read from the live queue in the running cycle; and every
\* line the consumer writes to the live queue is such a line too.
C8_DeadLetterAppendOnly ==
    [][/\ IsPrefix(deadLetter, deadLetter')
       /\ sent' # sent =>
            /\ Len(sent') = Len(sent) + 1
            /\ SubSeq(sent', 1, Len(sent)) = sent
            /\ sent'[Len(sent')].line \notin Malformed
            /\ Count(content, sent'[Len(sent')].line) > 0
       /\ (queueFile' # queueFile /\ enqueued' = enqueued) =>
            \A i \in DOMAIN queueFile' :
               queueFile'[i] \notin Malformed /\ Count(content, queueFile'[i]) > 0]_vars

\* The dead-letter file received lines in two different cycles.
C8_Witness ==
    /\ pc = "idle" /\ cycle = 2
    /\ Len(deadLetter) = 2 /\ deadLetter[1] # deadLetter[2]
    /\ sent = <<>> /\ queueFile = <<>>

C10_StatusLogAppendOnly == [][IsPrefix(statusLog, statusLog')]_vars

\* Two entries were appended and a subscriber has read the log.
C10_Witness ==
    /\ Len(statusLog) = 2
    /\ \E s \in 1..MaxReaders : subs[s].state = "done" /\ subs[s].outcome = "entry"

\* ------------------------------------------------------------------ subscriptions
\* The subscribers that returned an entry returned the one at their own index.
ReturnedEntry(sub) ==
    /\ sub.state = "done"
    /\ sub.entry \in 1..Len(statusLog)
    /\ sub.value = <<statusLog[sub.entry]>>

\* C11: a Next subscription returns only an entry appended after it started,
\* never one that was already in the log, and without a timeout it is still
\* waiting as long as no entry has been appended.
C11_NextReturnsNewer ==
    \A s \in DOMAIN subs : subs[s].mode = "next" =>
        /\ subs[s].outcome = "entry" =>
              ReturnedEntry(subs[s]) /\ subs[s].entry > subs[s].offset
        /\ (~subs[s].timeout /\ Len(statusLog) = subs[s].offset) =>
              subs[s].state = "waiting"

\* A Next subscription started after the first entry returned the second, while
\* another without a timeout started later and is still waiting.
C11_Witness ==
    \E s, r \in DOMAIN subs :
        /\ subs[s].mode = "next" /\ subs[s].outcome = "entry"
        /\ subs[s].offset = 1 /\ subs[s].entry = 2
        /\ subs[r].mode = "next" /\ ~subs[r].timeout
        /\ subs[r].offset = 2 /\ subs[r].state = "waiting"

\* C12: a subscription that waits with a timeout terminates, and the timeout
\* outcome carries no entry: it is neither a returned entry nor "no entries".
C12_TimeoutTerminates ==
    /\ \A s \in 1..MaxReaders :
          (subs[s].state = "waiting" /\ subs[s].timeout) ~> (subs[s].state = "done")
    /\ [](\A s \in 1..MaxReaders : subs[s].outcome = "timeout" =>
             /\ subs[s].state = "done" /\ subs[s].timeout
             /\ subs[s].value = <<>> /\ subs[s].entry = 0
             /\ subs[s].mode # "last")

\* A Next subscription with a timeout ended with the timeout outcome on an idle agent.
C12_Witness ==
    \E s \in DOMAIN subs :
        /\ subs[s].mode = "next" /\ subs[s].outcome = "timeout"
        /\ Len(statusLog) = subs[s].offset

\* C13: a Last subscription never waits: it is done at once, with the entry that
\* was the most recent one when it ran, or with "no entries" on an empty log.
C13_LastNeverBlocks ==
    \A s \in DOMAIN subs : subs[s].mode = "last" =>
        /\ subs[s].state = "done"
        /\ IF subs[s].offset > 0
           THEN /\ subs[s].outcome = "entry"
                /\ subs[s].entry = subs[s].offset
                /\ ReturnedEntry(subs[s])
           ELSE subs[s].outcome = "noEntries" /\ subs[s].value = <<>>

\* One Last on the empty log reported "no entries", a later one returned the
\* second of two entries.
C13_Witness ==
    \E s, r \in DOMAIN subs :
        /\ subs[s].mode = "last" /\ subs[s].outcome = "noEntries"
        /\ subs[r].mode = "last" /\ subs[r].outcome = "entry" /\ subs[r].entry = 2

\* C14: a Last subscription leaves the status log as it is, and returns what an
\* earlier Last returned when no entry was appended between the two.
C14_LastIdempotent ==
    [][\A s \in DOMAIN subs :
          (subs[s].mode = "none" /\ subs'[s].mode = "last") =>
             /\ statusLog' = statusLog
             /\ \A r \in DOMAIN subs :
                   (subs[r].mode = "last" /\ subs[r].offset = Len(statusLog)) =>
                      /\ subs'[s].outcome = subs[r].outcome
                      /\ subs'[s].value = subs[r].value]_vars

\* Two Last subscriptions returned the same entry; a turn that appended nothing
\* completed before they ran.
C14_Witness ==
    /\ Len(turns) > Len(statusLog)
    /\ \E s, r \in DOMAIN subs :
          /\ s # r
          /\ subs[s].mode = "last" /\ subs[r].mode = "last"
          /\ subs[s].outcome = "entry" /\ subs[r].outcome = "entry"
          /\ subs[s].offset = subs[r].offset

\* C15: LastOrNext on a log with an entry is done at once with the most recent
\* entry; on an empty log it waits as Next does: it returns only the first entry
\* appended, or a timeout, and without a timeout it waits while the log is empty.
C15_LastOrNext ==
    \A s \in DOMAIN subs : subs[s].mode = "lastOrNext" =>
        IF subs[s].offset > 0
        THEN /\ subs[s].outcome = "entry"
             /\ subs[s].entry = subs[s].offset
             /\ ReturnedEntry(subs[s])
        ELSE /\ subs[s].outcome \in {"none", "entry", "timeout"}
             /\ subs[s].outcome = "none" <=> subs[s].state = "waiting"
             /\ subs[s].outcome = "entry" => ReturnedEntry(subs[s]) /\ subs[s].entry = 1
             /\ subs[s].outcome = "timeout" => subs[s].timeout
             /\ (~subs[s].timeout /\ Len(statusLog) = 0) => subs[s].state = "waiting"

\* One LastOrNext started on the empty log and returned the first entry after
\* waiting, another started after two entries and returned the second.
C15_Witness ==
    \E s, r \in DOMAIN subs :
        /\ subs[s].mode = "lastOrNext" /\ subs[s].offset = 0 /\ subs[s].entry = 1
        /\ subs[r].mode = "lastOrNext" /\ subs[r].offset = 2 /\ subs[r].entry = 2

\* C16: a step of one subscriber changes neither the status log nor another
\* subscriber; a waiting subscriber that returns gets the entry another waiting
\* subscriber of the same offset got; a step that appends changes no subscriber.
C16_ReadOnlySubscribers ==
    [][/\ statusLog' # statusLog => subs' = subs
       /\ \A s \in DOMAIN subs : subs'[s] # subs[s] =>
             /\ statusLog' = statusLog
             /\ \A r \in DOMAIN subs \ {s} :
                   /\ subs'[r] = subs[r]
                   /\ ( /\ subs[s].state = "waiting" /\ subs'[s].outcome = "entry"
                        /\ subs[r].outcome = "entry" /\ subs[r].offset = subs[s].offset
                        /\ subs[r].mode = subs[s].mode )
                      => subs'[s].value = subs[r].value]_vars

\* Two Next subscribers waited from the same offset and both returned the first
\* entry, the second of them after a second entry had been appended.
C16_Witness ==
    /\ Len(statusLog) = 2
    /\ \A s \in {1, 2} :
          /\ subs[s].mode = "next" /\ subs[s].offset = 0
          /\ subs[s].outcome = "entry" /\ subs[s].entry = 1

\* ------------------------------------------------------------------ truncation
\* The turns that appended an entry. Each turn record keeps the text extracted
\* from its last assistant message and the index of the entry it appended.
AppendingTurns == {k \in DOMAIN turns : turns[k].index \in 1..Len(statusLog)}

\* C17: the message of every entry in the status log is at most
\* MAX_MESSAGE_CHARS characters long.
C17_MessageWithinCap ==
    \A i \in DOMAIN statusLog : Length(statusLog[i].message) <= MAX_MESSAGE_CHARS

\* C18: an entry is flagged truncated exactly when the extracted text is longer
\* than the cap; an entry not flagged holds the extracted text, a flagged one
\* begins with the first MAX_MESSAGE_CHARS characters of it.
C18_TruncatedFlag ==
    \A k \in AppendingTurns :
        LET e == statusLog[turns[k].index]
            t == turns[k].text
        IN  /\ e.truncated <=> Length(t) > MAX_MESSAGE_CHARS
            /\ ~e.truncated => e.message = t
            /\ e.truncated =>
                  /\ Length(e.message) >= MAX_MESSAGE_CHARS
                  /\ Slice(e.message, MAX_MESSAGE_CHARS) = Slice(t, MAX_MESSAGE_CHARS)

\* One turn logged a text of exactly the cap, not flagged; another a longer
\* text, flagged.
C18_Witness ==
    \E j, k \in AppendingTurns :
        /\ Length(turns[j].text) = MAX_MESSAGE_CHARS
        /\ ~statusLog[turns[j].index].truncated
        /\ Length(turns[k].text) > MAX_MESSAGE_CHARS
        /\ statusLog[turns[k].index].truncated

\* ------------------------------------------------------------------ session names
\* The addresses encode accepts.
AcceptedAddresses ==
    {a \in [project : Components, worktree : Components \cup {None},
            subsession : Components \cup {None}] : ValidAddress(a)}

\* The address has a subsession only together with a worktree.
Positional(a) == a.subsession # None => a.worktree # None

Rejection ==
    codecPc # "idle" =>
        IF \E c \in {address.project, address.worktree, address.subsession} : HasSep(c)
        THEN codecPc = "rejected" /\ codecError = "InvalidAddressComponent" /\ flatId = None
        ELSE codecPc # "rejected" /\ codecError = "none" /\ flatId # None

\* C20 as stated: rejection, and no other accepted address has the same name.
C20_Original ==
    /\ Rejection
    /\ codecPc \in {"encoded", "decoded"} =>
          \A other \in AcceptedAddresses : Encode(other).flatId = flatId => other = address

\* C20: an address with a component that contains the separator is rejected with
\* InvalidAddressComponent and gets no session name; no two distinct accepted
\* addresses that have a subsession only together with a worktree get the same name.
C20_RejectedOrDistinct ==
    /\ Rejection
    /\ (codecPc \in {"encoded", "decoded"} /\ Positional(address)) =>
          \A other \in AcceptedAddresses :
              (Positional(other) /\ Encode(other).flatId = flatId) => other = address

\* An address whose worktree, of more than one character, contains the separator
\* was rejected.
C20_Witness ==
    /\ codecPc = "rejected"
    /\ ~HasSep(address.project)
    /\ address.worktree # None /\ HasSep(address.worktree) /\ Len(address.worktree) > 1

\* ------------------------------------------------------------------ rewrite and lifecycle
\* C29: a drain cycle that ends with a successful rewrite leaves the queue file
\* in place, holding exactly the lines whose handoff failed in the cycle, in
\* their order (nothing when none failed), all of them lines the cycle read.
C29_RewriteKeepsRetry ==
    [][CycleCompletes =>
         /\ queueExists'
         /\ queueFile' = refused
         /\ IsSubseq(queueFile', lines)]_vars

\* Both lines of <<hello, stop>> were refused in the one cycle, and the rewrite
\* left both, in order.
C29_Witness ==
    /\ pc = "idle" /\ cycle = 1 /\ ~raced /\ faults = 2
    /\ sent = <<>>
    /\ queueExists /\ queueFile = <<LineHello, LineStop>>

\* C30: a drain cycle is running, or a timer that starts one is live, only
\* between a session_start and the next session_shutdown.
C30_DrainsOnlyWhileAlive == (pc # "idle" \/ timers > 0) => pollInterval

\* ------------------------------------------------------------------ session files
\* C21: two sessions started in different working directories resolved different
\* queue files and different status files.
C21_NoSharedFile ==
    \A i, j \in DOMAIN sessions :
        (sessions[i].started /\ sessions[j].started /\ sessions[i].cwd # sessions[j].cwd) =>
            /\ sessions[i].queueFile # sessions[j].queueFile
            /\ sessions[i].statusFile # sessions[j].statusFile

\* C27: no exception leaves a handler of the status writer.
C27_StatusNeverRaises == ~statusRaised

\* ------------------------------------------------------------------ metadata side-channel
\* The text the last operation scanned: that of the last assistant message.
ScannedText(op) ==
    LET last == KwLastAssistant(op.messages)
    IN  IF last = 0 THEN <<>> ELSE KwExtractText(op.messages[last].content)

Mentions(text, word) == \E i \in DOMAIN text : text[i] = word

\* The last operation wrote the file, which held an object before.
WroteOverObject == lastOp.before.kind = "object" /\ metaFile # lastOp.before

\* C22: a metadata write over an object keeps every field other than the one it
\* updates and updatedAt: the unknown field always, the description in a tags
\* command, the tags in a note command, and in a turn each of the two whose
\* directive the scanned text does not hold.
C22_OtherFieldsKept ==
    WroteOverObject =>
        /\ metaFile.kind = "object"
        /\ metaFile.obj.owner = lastOp.before.obj.owner
        /\ lastOp.kind = "kw-tags" => metaFile.obj.description = lastOp.before.obj.description
        /\ lastOp.kind = "kw-note" => metaFile.obj.tags = lastOp.before.obj.tags
        /\ lastOp.kind = "agent_end" =>
              /\ ~Mentions(ScannedText(lastOp), KW_TAGS) =>
                    metaFile.obj.tags = lastOp.before.obj.tags
              /\ ~Mentions(ScannedText(lastOp), KW_NOTE) =>
                    metaFile.obj.description = lastOp.before.obj.description

\* The first line of the text that reads: optional blanks, the word, one blank
\* or more, a payload.
DirectiveLine(text, word) ==
    LET textLines == SplitOn(text, {"\n"})
        Directive(l) ==
            LET t == TrimStart(l)
            IN  Len(t) >= 3 /\ t[1] = word /\ t[2] \in KwSpace
        hits == {i \in DOMAIN textLines : Directive(textLines[i])}
    IN  IF hits = {} THEN NoMatch
        ELSE LET t == TrimStart(textLines[CHOOSE i \in hits : \A j \in hits : i <= j])
             IN  [found |-> TRUE, payload |-> TrimString(SubSeq(t, 3, Len(t)))]

\* The file after the explicit commands have been run with the payloads of the
\* directive lines of the scanned text.
AsExplicit(op) ==
    LET tagLine == DirectiveLine(ScannedText(op), KW_TAGS)
        noteLine == DirectiveLine(ScannedText(op), KW_NOTE)
        first == IF tagLine.found
                 THEN UpdateMeta(op.before, TagsUpdate(ParseTags(tagLine.payload)), 0, "none").file
                 ELSE op.before
    IN  IF noteLine.found
        THEN UpdateMeta(first, NoteUpdate(noteLine.payload), 0, "none").file
        ELSE first

\* C23: after a turn in an enabled session, with no file-system fault, the tags
\* and the description stored are those the explicit commands would have
\* stored for the first /kw-tags line and the first /kw-note line of the last
\* assistant message.
C23_InlineAsExplicit ==
    (lastOp.kind = "agent_end" /\ CommandsRegistered /\ ~kwRaised
       /\ lastOp.faults = <<"none", "none">>) =>
        /\ metaFile.kind = AsExplicit(lastOp).kind
        /\ metaFile.obj.tags = AsExplicit(lastOp).obj.tags
        /\ metaFile.obj.description = AsExplicit(lastOp).obj.description

\* The tag list the text of C24 gives for each argument.
ExpectedTags(args) ==
    CASE args = <<"a", ",", "b">> -> << <<"a">>, <<"b">> >>
      [] args = <<" ", "a", " ", "b", ";", ",", "b", " ">> -> << <<"a", " ", "b">>, <<"b">> >>
      [] OTHER -> <<>>

RanKwTags == lastOp.kind = "kw-tags" /\ CommandsRegistered

RanKwNote == lastOp.kind = "kw-note" /\ CommandsRegistered

\* C25 as stated: after /kw-note the stored description is the argument.
C25_Original ==
    RanKwNote => metaFile.kind = "object" /\ metaFile.obj.description = <<lastOp.args>>

\* C25: after /kw-note with an argument that is not empty, whose write
\* succeeded, the stored description is the argument; after /kw-note with the
\* empty argument on a file that holds an object, with no fault, the description
\* is the one stored before ("" when there was none).
C25_NoteReplaced ==
    RanKwNote =>
        /\ (lastOp.args # <<>> /\ lastOp.faults # <<"write">>) =>
              metaFile.kind = "object" /\ metaFile.obj.description = <<lastOp.args>>
        /\ (lastOp.args = <<>> /\ lastOp.faults = <<"none">> /\ lastOp.before.kind = "object") =>
              /\ metaFile.kind = "object"
              /\ metaFile.obj.description =
                    IF lastOp.before.obj.description = <<>> THEN << <<>> >>
                    ELSE lastOp.before.obj.description

\* /kw-note with the empty argument wrote the file and kept the description "old".
C25_Witness ==
    /\ RanKwNote
    /\ lastOp.args = <<>> /\ lastOp.faults = <<"none">>
    /\ lastOp.before = ObjectFile(OldObject)
    /\ metaFile # lastOp.before
    /\ metaFile.obj.description = << <<"o", "l", "d">> >>

\* C26: no exception leaves a command or agent_end handler, and an explicit
\* command whose read, parse or write of the metadata file failed leaves the
\* file as it was.
C26_FailedPersistSwallowed ==
    /\ ~kwRaised
    /\ (lastOp.kind \in {"kw-tags", "kw-note"} /\ CommandsRegistered
          /\ (lastOp.faults # <<"none">> \/ lastOp.before.kind = "corrupt")) =>
           metaFile = lastOp.before

\* C28: in a session without the role marker, or without a metadata file path,
\* nothing has written the metadata file.
C28_DisabledNeverWrites ==
    ((kwEnv.PI_ROLE # "knowledge-worker" /\ kwEnv.PI_KW_ROLE # "1")
        \/ kwEnv.PI_KW_META_FILE = "") =>
        /\ metaWrites = 0
        /\ lastOp.kind # "none" => metaFile = lastOp.before

\* A session with a file path and no role marker, after a /kw-tags command and
\* then a turn whose last assistant message holds both directives.
C28_Witness ==
    /\ kwEnv.PI_ROLE = "" /\ kwEnv.PI_KW_ROLE = "" /\ kwEnv.PI_KW_META_FILE = "meta.json"
    /\ metaOps = 2
    /\ lastOp.kind = "agent_end"
    /\ Mentions(ScannedText(lastOp), KW_TAGS) /\ Mentions(ScannedText(lastOp), KW_NOTE)
    /\ metaFile = ObjectFile(OldObject)

\* ------------------------------------------------------------------ delivery mode
\* The entries with a message that is a non-empty string.
WithMessage == {LineHello, LineStop, LineNoMode, LineOddMode}

\* C31: every handoff was made as `steer` when the entry's mode is exactly
\* "steer" and as `followUp` otherwise (mode "followUp", no mode, mode "STEER"),
\* and no entry with a message is in the dead-letter file.
C31_DeliveredByMode ==
    /\ \A i \in DOMAIN sent :
           sent[i].deliverAs = (IF sent[i].line = LineStop THEN "steer" ELSE "followUp")
    /\ \A i \in DOMAIN deadLetter : deadLetter[i] \notin WithMessage

\* An entry of mode "STEER" was handed over as followUp and one of mode "steer"
\* as steer.
C31_Witness ==
    /\ \E i \in DOMAIN sent : sent[i].line = LineOddMode /\ sent[i].deliverAs = "followUp"
    /\ \E i \in DOMAIN sent : sent[i].line = LineStop /\ sent[i].deliverAs = "steer"

\* ------------------------------------------------------------------ fsKey
\* What the text of C32 makes of one character of the working directory.
KeyChar(ch) == CASE ch = "/" -> "-" [] ch = "P" -> "p" [] OTHER -> ch

\* C32: the fsKey of a started session is its working directory without the
\* leading "/", character by character lower-cased and with "-" for "/"; it
\* holds no "/" and no upper-case letter; sessions in the same working directory
\* have the same fsKey whatever their names.
C32_FsKeyOfCwd ==
    /\ \A i \in DOMAIN sessions :
           sessions[i].started =>
               /\ Len(sessions[i].fsKey) = Len(sessions[i].cwd) - 1
               /\ \A k \in DOMAIN sessions[i].fsKey :
                      /\ sessions[i].fsKey[k] = KeyChar(sessions[i].cwd[k + 1])
                      /\ sessions[i].fsKey[k] \notin {"/", "P"}
    /\ \A i, j \in DOMAIN sessions :
           (sessions[i].started /\ sessions[j].started /\ sessions[i].cwd = sessions[j].cwd) =>
               sessions[i].fsKey = sessions[j].fsKey

\* Two sessions of different names in /P/p both have the fsKey "p-p".
C32_Witness ==
    /\ sessions[1].started /\ sessions[2].started
    /\ sessions[1].name # sessions[2].name
    /\ sessions[1].cwd = <<"/", "P", "/", "p">> /\ sessions[2].cwd = <<"/", "P", "/", "p">>
    /\ sessions[1].fsKey = <<"p", "-", "p">> /\ sessions[2].fsKey = <<"p", "-", "p">>

\* The part of a path after its last "/".
BaseName(path) ==
    LET slashes == {i \in DOMAIN path : path[i] = "/"}
        last == IF slashes = {} THEN 0 ELSE CHOOSE i \in slashes : \A j \in slashes : j <= i
    IN  SubSeq(path, last + 1, Len(path))

\* The part of a path up to and with its last "/".
DirName(path) == SubSeq(path, 1, Len(path) - Len(BaseName(path)))

\* C38: with no status-file override, the queue file and the status file of a
\* session have the same base name, <fsKey>.jsonl, each under its own root.
C38_SameBaseName ==
    \A i \in DOMAIN sessions :
        sessions[i].started =>
            /\ BaseName(sessions[i].queueFile) = BaseName(sessions[i].statusFile)
            /\ BaseName(sessions[i].queueFile) = sessions[i].fsKey \o Jsonl
            /\ DirName(sessions[i].queueFile) = HOME \o QueueRoot
            /\ DirName(sessions[i].statusFile) = HOME \o StatusRoot

\* A session in /p/P has the queue file <queue-root>/p-p.jsonl and the status
\* file <status-root>/p-p.jsonl.
C38_Witness ==
    /\ sessions[1].started
    /\ sessions[1].cwd = <<"/", "p", "/", "P">>
    /\ sessions[1].queueFile = HOME \o QueueRoot \o <<"p", "-", "p">> \o Jsonl
    /\ sessions[1].statusFile = HOME \o StatusRoot \o <<"p", "-", "p">> \o Jsonl

\* ------------------------------------------------------------------ entry of a turn
\* The content of the most recent assistant message of a turn that has one.
RecentAssistantContent(messages) ==
    LET last == CHOOSE i \in DOMAIN messages :
                    /\ messages[i].role = "assistant"
                    /\ \A j \in (i + 1)..Len(messages) : messages[j].role # "assistant"
    IN  messages[last].content

\* The texts of the text-typed parts of a content, in order.
TextsOf(c) ==
    LET typed == SelectSeq(c.parts, LAMBDA part : part.type = "text")
    IN  [i \in DOMAIN typed |-> typed[i].text]

RECURSIVE ConcatAll(_)
ConcatAll(ts) == IF ts = <<>> THEN <<>> ELSE Concat(Head(ts), ConcatAll(Tail(ts)))

\* The text of a content as C33 words it: the string, or the texts of the
\* text-typed parts one after the other.
PlainText(c) == IF c.kind = "string" THEN c.text ELSE ConcatAll(TextsOf(c))

\* The same with the parts joined by one space and the result trimmed.
SpacedText(c) == IF c.kind = "string" THEN c.text ELSE Trim(JoinSpace(TextsOf(c)))

\* The step is the agent_end of a turn with these messages and appended an entry.
AppendedFor(messages) ==
    /\ \E sessionFile \in {"null", "s.jsonl"} : AgentEnd(messages, sessionFile)
    /\ Len(statusLog') = Len(statusLog) + 1

\* C33 as stated: the entry's message is the text of the most recent assistant
\* message, with status "done" and role "assistant".
C33_Original ==
    [][\A messages \in TurnMessages :
          AppendedFor(messages) =>
              LET entry == statusLog'[Len(statusLog')]
              IN  /\ entry.status = "done" /\ entry.role = "assistant"
                  /\ entry.message = PlainText(RecentAssistantContent(messages))]_vars

\* C33: the entry of a turn has status "done" and role "assistant", and its
\* message is made from the most recent assistant message: the string content,
\* or the texts of the text-typed parts in order, joined by single spaces and
\* trimmed; as it is when no longer than the cap, and otherwise beginning with
\* its first MAX_MESSAGE_CHARS characters and flagged truncated.
C33_EntryFromLastAssistant ==
    [][\A messages \in TurnMessages :
          AppendedFor(messages) =>
              LET entry == statusLog'[Len(statusLog')]
                  text == SpacedText(RecentAssistantContent(messages))
              IN  /\ entry.status = "done" /\ entry.role = "assistant"
                  /\ IF Length(text) <= MAX_MESSAGE_CHARS
                     THEN entry.message = text /\ ~entry.truncated
                     ELSE /\ Slice(entry.message, MAX_MESSAGE_CHARS) =
                                Slice(text, MAX_MESSAGE_CHARS)
                          /\ entry.truncated]_vars

\* The log holds the entry of the turn whose assistant message has the parts
\* "a", a tool call and "b ", followed by a tool result: its message is "a b".
C33_Witness ==
    \E i \in DOMAIN statusLog :
        /\ statusLog[i].message = Text(<<"a", " ", "b">>)
        /\ statusLog[i].stopReason = "toolUse"
        /\ statusLog[i].status = "done" /\ statusLog[i].role = "assistant"

\* ------------------------------------------------------------------ blank queue
\* The queue file is absent, empty, or holds blank lines only.
NothingQueued == ~queueExists \/ \A i \in DOMAIN queueFile : queueFile[i] = LineBlank

\* C34: while the queue file is absent, empty or all blank, no step of the
\* consumer starts a cycle, hands anything over, dead-letters anything, or
\* creates or rewrites the queue file; no blank line is ever handed over or
\* dead-lettered, and none is left by a completed rewrite.
C34_BlankQueueNoOp ==
    [][/\ (pc = "idle" /\ NothingQueued /\ enqueued' = enqueued) =>
            /\ pc' = "idle"
            /\ queueExists' = queueExists /\ queueFile' = queueFile
            /\ deadLetter' = deadLetter /\ sent' = sent
       /\ \A i \in DOMAIN sent' : sent'[i].line # LineBlank
       /\ \A i \in DOMAIN deadLetter' : deadLetter'[i] # LineBlank
       /\ CycleCompletes => \A i \in DOMAIN queueFile' : queueFile'[i] # LineBlank]_vars

\* A blank line and then an entry were enqueued; one cycle handed the entry over
\* and left the queue empty, with nothing dead-lettered.
C34_Witness ==
    /\ pc = "idle" /\ cycle = 1 /\ timers > 0
    /\ Len(enqueued) = 2 /\ enqueued[1].line = LineBlank /\ enqueued[2].line = LineHello
    /\ Len(sent) = 1 /\ sent[1].line = LineHello
    /\ deadLetter = <<>>
    /\ queueExists /\ queueFile = <<>>

\* ------------------------------------------------------------------ one cycle
\* The last k lines of the dead-letter file.
LastDeadLetters(k) == SubSeq(deadLetter, Len(deadLetter) - k + 1, Len(deadLetter))

\* C35: when a drain cycle completes, the lines it read are, counted with their
\* repetitions, exactly the lines handed over in the cycle, the lines the cycle
\* appended to the dead-letter file and the lines the rewrite left in the queue
\* together; an entry with a message is not among the dead-lettered ones, and a
\* malformed line is among them only.
C35_Conservation ==
    [][CycleCompletes =>
         LET handed == SentIn(sent, cycle)
             k == Len(lines) - Len(handed) - Len(queueFile')
         IN  /\ k \in 0..Len(deadLetter)
             /\ \A l \in Lines \cup ModeLines :
                    /\ Count(lines, l) = Count(handed, l) + Count(LastDeadLetters(k), l)
                                           + Count(queueFile', l)
                    /\ Count(LastDeadLetters(k), l) > 0 =>
                           Count(handed, l) = 0 /\ Count(queueFile', l) = 0]_vars

\* One cycle read <<stop, null>>: the handoff of stop failed and it was left in
\* the queue, null was dead-lettered, nothing was handed over.
C35_Witness ==
    /\ pc = "idle" /\ cycle = 1 /\ ~raced /\ faults = 1
    /\ Len(enqueued) = 2 /\ enqueued[1].line = LineStop /\ enqueued[2].line = LineNull
    /\ sent = <<>>
    /\ deadLetter = <<LineNull>>
    /\ queueFile = <<LineStop>>

\* C36: after a handoff that failed the loop goes on to the next line it read,
\* handing nothing over for the failed one; when the cycle completes, every
\* entry with a message that it read was handed over in it or failed in it, and
\* the failed ones are what the queue holds for a later cycle; as long as nothing
\* has failed, entries are handed over in the order in which they were enqueued.
C36_FailedHandoffGoesOn ==
    [][/\ (pc = "loop" /\ Len(refused') > Len(refused)) =>
            /\ sent' = sent
            /\ lines' = lines
            /\ IF idx < Len(lines) THEN pc' = "loop" /\ idx' = idx + 1 ELSE pc' = "rewrite"
       /\ CycleCompletes =>
            /\ \A l \in Lines \ Malformed :
                   l # LineBlank =>
                       Count(lines, l) = Count(SentIn(sent, cycle), l) + Count(refused, l)
            /\ queueFile' = refused
       /\ faults = 0 =>
            IsSubseq([i \in DOMAIN sent |-> sent[i].line],
                     [i \in DOMAIN enqueued |-> enqueued[i].line])]_vars

\* hello was enqueued before stop; in the first cycle the handoff of hello
\* failed and stop was handed over, and hello was handed over in the second.
C36_Witness ==
    /\ Len(enqueued) = 2
    /\ enqueued[1] = [line |-> LineHello, at |-> 0]
    /\ enqueued[2] = [line |-> LineStop, at |-> 0]
    /\ faults = 1
    /\ Len(sent) = 2
    /\ sent[1].line = LineStop /\ sent[1].cycle = 1
    /\ sent[2].line = LineHello /\ sent[2].cycle = 2

\* ------------------------------------------------------------------ a cycle cut short
\* This step ends a drain cycle by an I/O error (a dead-letter append or the
\* rewrite failed).
CycleCutShort == pc # "idle" /\ pc' = "idle" /\ faults' > faults

\* The cycle after the one last cut short has run to the end of its loop.
NextCycleRan == cutShort > 0 /\ cycle = cutShort + 1 /\ pc \in {"rewrite", "idle"}

\* C37 as stated: once the cycle after a cycle that was cut short has run, every
\* entry handed over in the cut cycle has been handed over again in it.
C37_Original ==
    NextCycleRan =>
        \A l \in Lines :
            Count(SentIn(sent, cycle), l) >= Count(SentIn(sent, cutShort), l)

\* C37: a step that cuts a cycle short leaves the queue file as it is, which is
\* as it was read (with what the controller appended since), so every entry
\* handed over in the cycle is still in it, and leaves the timer live; in the
\* next cycle each of those entries is attempted again: at the end of its loop
\* it has been handed over again or its handoff has failed.
C37_CutCycleRedelivers ==
    [][/\ CycleCutShort =>
            /\ queueExists' /\ queueFile' = queueFile
            /\ IsPrefix(content, queueFile')
            /\ \A l \in Lines : Count(queueFile', l) >= Count(SentIn(sent, cycle), l)
            /\ ~raised' /\ timers' > 0
       /\ (cutShort > 0 /\ cycle = cutShort + 1 /\ pc = "rewrite") =>
            \A l \in Lines :
                Count(SentIn(sent, cycle), l) + Count(refused, l)
                    >= Count(SentIn(sent, cutShort), l)]_vars

\* hello was handed over in cycle 1, which the failed dead-letter append of the
\* next line cut short; cycle 2 handed hello over again.
C37_Witness ==
    /\ cutShort = 1 /\ cycle = 2 /\ pc = "idle" /\ faults = 1 /\ ~raced
    /\ Len(enqueued) = 2 /\ enqueued[1].line = LineHello /\ enqueued[2].line = LineNotJson
    /\ Len(sent) = 2
    /\ sent[1].line = LineHello /\ sent[1].cycle = 1
    /\ sent[2].line = LineHello /\ sent[2].cycle = 2
    /\ deadLetter = <<LineNotJson>>

\* ------------------------------------------------------------------ concurrent writers
\* The field of the object that an update sets.
FieldOf(obj, update) == IF update.field = "tags" THEN obj.tags ELSE obj.description

\* C39: when updateMeta writes, every field that the controller set since
\* updateMeta's read, other than the field updateMeta itself updates, still has
\* the value the controller gave it.
C39_NoLostUpdate ==
    [][(metaPending.active /\ metaWrites' > metaWrites) =>
          \A i \in DOMAIN metaPending.between :
              LET other == metaPending.between[i]
              IN  other.field # metaPending.update.field =>
                      FieldOf(metaFile'.obj, other) = <<other.value>>]_vars

\* ------------------------------------------------------------------ reported tags
\* The last operation was a tag update: /kw-tags, or a turn whose scanned text
\* matched the tag directive.
LastWasTagUpdate ==
    \/ lastOp.kind = "kw-tags"
    \/ lastOp.kind = "agent_end" /\ Match(ScannedText(lastOp), KW_TAGS).found

\* C40: after a tag update in an enabled session the tag list the session
\* reports is the `tags` field of the metadata file.
C40_ReportedTagsAreStored ==
    (CommandsRegistered /\ LastWasTagUpdate) =>
        metaFile.kind = "object" /\ metaFile.obj.tags = <<currentTags>>

====
